---------------------------- MODULE Spec2Model ----------------------------
(***************************************************************************)
(* NoteGlow: the transform and definition pipeline.                        *)
(*                                                                         *)
(*   SpecHL     the highlight engine (lib/highlight: highlightKeyTerms,    *)
(*              removeHighlights), strings as sequences of characters      *)
(*   SpecRoute  the transform request handler (app/api/transform/route.ts) *)
(*   SpecOrch   the client hooks useTransformLogic and useTermDefinitions  *)
(*                                                                         *)
(* Each specification drives one group of variables and leaves the others  *)
(* at their initial values.                                                *)
(***************************************************************************)
EXTENDS Integers, Sequences, FiniteSets, TLC

VARIABLES
    \* ---- highlight engine
    hlPc,            \* "call" | "loop" | "returned" | "cleared"
    hlContent,       \* htmlContent, the argument of highlightKeyTerms
    hlKeyTerms,      \* keyTerms, the argument of highlightKeyTerms
    hlQueue,         \* the terms of sortedTerms the for loop has not reached yet
    hlResult,        \* the local variable result
    hlCleared,       \* what removeHighlights returned for hlResult
    \* ---- transform request handler (POST /api/transform)
    rtPc,            \* where the handler stands
    rtEnvToken,      \* whether process.env.HF_TOKEN is set
    rtBody,          \* the request body as received
    rtOptions,       \* validatedData.options
    rtInstructions,  \* the array instructions
    rtOutputFormat,  \* the highlights and comments examples of OUTPUT FORMAT
    rtOutbound,      \* calls of client.chatCompletion made so far
    rtApiError,      \* what client.chatCompletion threw, if it threw
    rtContent,       \* responseContent
    rtJsonContent,   \* jsonContent, as handed to JSON.parse
    rtResponse,      \* the NextResponse returned
    \* ---- client hooks (useTransformLogic, useTermDefinitions)
    transformOptions,      \* useState: the three option flags
    isTransforming,        \* useState
    transformResult,       \* useState: <<>> for null, else <<result>>
    transformError,        \* useState: <<>> for null, else <<message>>
    termDefinitions,       \* useState: the term -> definition record
    selectedTerm,          \* useState: <<>> for null, else <<term>>
    isLoadingDefinitions,  \* useState
    calls,                 \* the handleConfirmTransform invocations so far
    defRequests,           \* the /api/term-definition requests issued so far
    \* ---- definition request handler (POST /api/term-definition)
    dfPc,            \* where the handler stands
    dfEnvToken,      \* whether process.env.HF_TOKEN is set
    dfBody,          \* the request body as received
    dfUserMessage,   \* which of the two user messages was built
    dfOutbound,      \* calls of client.chatCompletion made so far
    dfDefinition,    \* the content of the reply
    dfResponse,      \* the NextResponse returned
    \* ---- note selection and the editor (Sidebar, useEditorState)
    selectedNoteID,  \* useState: <<>> for null, else <<id>>
    editorContent,   \* useState: the text, token by token
    noteLoads,       \* the notes whose getNoteById the load effect awaits
    noteSwitches,    \* how many times a note was selected
    \* ---- the editor's auto-save and the notes store (useEditorState,
    \* ---- useFolderNoteOperations, notesStore)
    editorTitle,     \* useState
    timers,          \* the setTimeout callbacks that are pending
    timerRef,        \* autoSaveTimeoutRef.current: <<>> or <<handle>>
    saveCleanup,     \* whether the last run of the auto-save effect returned its cleanup
    nextTimer,       \* the handle the next setTimeout returns
    lastSave,        \* the latest updateNoteContent call: <<>> or <<its arguments>>
    edits,           \* how many times the user changed the title or the content
    dbFolders,       \* the ids in db.folders
    dbNotes,         \* the records of db.notes
    folders,         \* useState: the ids of the folders list
    notes,           \* useState: the notes list, by id and folderID
    storeOps         \* the handleCreateNote and handleDeleteFolder calls so far

hlVars == <<hlPc, hlContent, hlKeyTerms, hlQueue, hlResult, hlCleared>>

rtVars == <<rtPc, rtEnvToken, rtBody, rtOptions, rtInstructions, rtOutputFormat,
            rtOutbound, rtApiError, rtContent, rtJsonContent, rtResponse>>

ocVars == <<transformOptions, isTransforming, transformResult, transformError,
            termDefinitions, selectedTerm, isLoadingDefinitions, calls,
            defRequests>>

dfVars == <<dfPc, dfEnvToken, dfBody, dfUserMessage, dfOutbound, dfDefinition,
            dfResponse>>

edVars == <<selectedNoteID, editorContent, noteLoads, noteSwitches, editorTitle,
            timers, timerRef, saveCleanup, nextTimer, lastSave, edits, dbFolders,
            dbNotes, folders, notes, storeOps>>

vars == <<hlVars, rtVars, ocVars, dfVars, edVars>>

(***************************************************************************)
(* Bounds                                                                  *)
(***************************************************************************)
MaxTextLen == 5

\* The most tokens of prose before, and after, the payload of a model reply.
MaxProse == 1

MaxTransforms == 2

\* The most selections of a note in one run.
MaxSwitches == 1

\* The most changes the user makes to the title or the content in one run.
MaxEdits == 2

\* The most handleCreateNote and handleDeleteFolder calls in one run.
MaxOps == 2

(***************************************************************************)
(* Strings                                                                 *)
(***************************************************************************)
\* The characters a note text is drawn from: a lower and an upper case
\* letter, the blank and the two bracket characters.
Chars == {"b", "B", " ", "<", ">"}

\* [A-Za-z0-9_] restricted to the characters that occur in texts and markers.
WordChars == {"b", "B", "m", "a", "r", "k"}

Whitespace == {" "}

OpenMark == <<"<", "m", "a", "r", "k", ">">>

CloseMark == <<"<", "/", "m", "a", "r", "k", ">">>

SeqsUpTo(S, n) == UNION {[1..k -> S] : k \in 0..n}

Texts == SeqsUpTo(Chars, MaxTextLen)

\* The term lists a transform result is rendered with.
TermLists ==
    { <<>>,
      << <<"b">> >>,
      << <<"B">> >>,
      << <<"b", " ", "b">> >>,
      << <<"b">>, <<"b", " ", "b">> >>,
      << <<"b", " ", "b">>, <<"b">> >>,
      << <<"b">>, <<"B", "b">> >>,
      << <<"b", "b">>, <<"b">> >>,
      << <<" ">>, <<"b">> >>,
      << <<>>, <<"b", "b">> >> }

IsWordChar(c) == c \in WordChars

ToLowerCase(c) == IF c = "B" THEN "b" ELSE c

\* s has pat at position i (1-based), compared exactly.
StartsWithAt(s, i, pat) ==
    /\ i >= 1
    /\ i + Len(pat) - 1 <= Len(s)
    /\ \A k \in 1..Len(pat) : s[i + k - 1] = pat[k]

\* String.prototype.indexOf, 1-based, 0 when pat does not occur.
IndexOf(s, pat) ==
    LET hits == {i \in 1..(Len(s) + 1) : StartsWithAt(s, i, pat)}
    IN  IF hits = {} THEN 0 ELSE CHOOSE i \in hits : \A j \in hits : i <= j

\* String.prototype.lastIndexOf of one character, 1-based, 0 when absent.
LastIndexOf(s, c) ==
    LET hits == {i \in 1..Len(s) : s[i] = c}
    IN  IF hits = {} THEN 0 ELSE CHOOSE i \in hits : \A j \in hits : i >= j

(***************************************************************************)
(* highlightKeyTerms                                                       *)
(***************************************************************************)
\* \b between s[i-1] and s[i]: exactly one side is a word character, the
\* string edges counting as non-word.
WordBoundaryAt(s, i) ==
    LET before == i > 1 /\ IsWordChar(s[i - 1])
        after == i <= Len(s) /\ IsWordChar(s[i])
    IN  before # after

\* The 'i' flag: characters compare equal after case folding.
CaseFoldEq(c, d) == ToLowerCase(c) = ToLowerCase(d)

\* The regular expression without its closing \b.
RegexMatchAtNoEndBoundary(s, term, i) ==
    /\ (i > 1 /\ s[i - 1] \in WordChars) # (i <= Len(s) /\ s[i] \in WordChars)
    /\ i + Len(term) - 1 <= Len(s)
    /\ \A k \in 1..Len(term) : ToLowerCase(s[i + k - 1]) = ToLowerCase(term[k])

\* new RegExp(`\\b${escapeRegex(term)}\\b`, 'gi') matches at position i:
\* the escaped term is matched literally.
RegexMatchAt(s, term, i) ==
    /\ WordBoundaryAt(s, i)
    /\ i + Len(term) - 1 <= Len(s)
    /\ \A k \in 1..Len(term) : CaseFoldEq(s[i + k - 1], term[k])
    /\ WordBoundaryAt(s, i + Len(term))

\* The tag test of the replace callback: it looks at the text before
\* result.indexOf(match), the first place the matched text occurs in result.
InsideTag(s, match) ==
    LET beforeMatch == SubSeq(s, 1, IndexOf(s, match) - 1)
        lastOpenBracket == LastIndexOf(beforeMatch, "<")
        lastCloseBracket == LastIndexOf(beforeMatch, ">")
    IN  lastOpenBracket > lastCloseBracket

\* The replace callback.
Replacement(s, match) ==
    IF InsideTag(s, match) THEN match ELSE OpenMark \o match \o CloseMark

\* result.replace(regex, callback): the matches are found left to right
\* without overlap, each replaced by what the callback returns for it.
RECURSIVE ReplaceFrom(_, _, _)
ReplaceFrom(s, term, i) ==
    IF i > Len(s) THEN <<>>
    ELSE IF RegexMatchAt(s, term, i)
         THEN Replacement(s, SubSeq(s, i, i + Len(term) - 1))
                  \o ReplaceFrom(s, term, i + Len(term))
         ELSE <<s[i]>> \o ReplaceFrom(s, term, i + 1)

\* !term || term.trim().length === 0
IsBlankTerm(term) == \A k \in 1..Len(term) : term[k] \in Whitespace

\* One iteration of the for loop over sortedTerms.
HighlightTerm(result, term) ==
    IF IsBlankTerm(term) THEN result ELSE ReplaceFrom(result, term, 1)

\* Array.prototype.sort with (a, b) => b.length - a.length: stable, longest first.
RECURSIVE InsertByLength(_, _)
InsertByLength(sorted, term) ==
    IF sorted = <<>> THEN <<term>>
    ELSE IF Len(Head(sorted)) >= Len(term)
         THEN <<Head(sorted)>> \o InsertByLength(Tail(sorted), term)
         ELSE <<term>> \o sorted

RECURSIVE SortLongestFirst(_)
SortLongestFirst(terms) ==
    IF terms = <<>> THEN <<>>
    ELSE InsertByLength(SortLongestFirst(SubSeq(terms, 1, Len(terms) - 1)),
                        terms[Len(terms)])

\* The terms in the order given, not sorted.
UnsortedTerms(keyTerms) == keyTerms

SortedTerms(keyTerms) == SortLongestFirst(keyTerms)

\* The whole loop, as a function of its input.
RECURSIVE HighlightAll(_, _)
HighlightAll(result, queue) ==
    IF queue = <<>> THEN result
    ELSE HighlightAll(HighlightTerm(result, Head(queue)), Tail(queue))

highlightKeyTerms(htmlContent, keyTerms) ==
    IF keyTerms = <<>> THEN htmlContent
    ELSE HighlightAll(htmlContent, SortedTerms(keyTerms))

(***************************************************************************)
(* removeHighlights                                                        *)
(***************************************************************************)
\* The end of the longest run of characters other than '<' that starts at i.
RECURSIVE RunEnd(_, _)
RunEnd(s, i) == IF i <= Len(s) /\ s[i] # "<" THEN RunEnd(s, i + 1) ELSE i

\* htmlContent.replace(/<mark>([^<]*)<\/mark>/g, '$1')
RECURSIVE RemoveFrom(_, _)
RemoveFrom(s, i) ==
    IF i > Len(s) THEN <<>>
    ELSE LET inner == i + Len(OpenMark)
             close == RunEnd(s, inner)
         IN  IF StartsWithAt(s, i, OpenMark) /\ StartsWithAt(s, close, CloseMark)
             THEN SubSeq(s, inner, close - 1)
                      \o RemoveFrom(s, close + Len(CloseMark))
             ELSE <<s[i]>> \o RemoveFrom(s, i + 1)

removeHighlights(htmlContent) == RemoveFrom(htmlContent, 1)

(***************************************************************************)
(* Model replies and request bodies, as sequences of tokens                *)
(***************************************************************************)
\* A model reply is a sequence of tokens: the fence (the token FENCE stands
\* for the three backquotes of a markdown code block), the language tag
\* json, white space, the braces, a word of prose (txt), words that hold an
\* error phrase, and the members of the payload object. A member token such
\* as hl:terms stands for a whole "key": value pair; fn:" opens the string
\* value of formattedNotes and " closes it, the tokens between them being
\* the characters of the string.
Fence == "FENCE"

WhitespaceTokens == {" "}

OptionNames == {"autoFormat", "highlightKeyTerms", "comments"}

Absent == [kind |-> "absent", v |-> <<>>]

StringValue(tokens) == [kind |-> "string", v |-> tokens]

NumberValue == [kind |-> "number", v |-> <<"5">>]

ArrayValue(items) == [kind |-> "array", v |-> items]

MemberTokens ==
    {"fn:text", "fn:empty", "fn:num", "hl:terms", "hl:none", "hl:str",
     "cm:list", "cm:none", "cm:str"}

MemberKey(tok) ==
    CASE tok \in {"fn:text", "fn:empty", "fn:num"} -> "formattedNotes"
      [] tok \in {"hl:terms", "hl:none", "hl:str"} -> "highlights"
      [] tok \in {"cm:list", "cm:none", "cm:str"} -> "comments"

MemberValue(tok) ==
    CASE tok = "fn:text" -> StringValue(<<"notes">>)
      [] tok = "fn:empty" -> StringValue(<<>>)
      [] tok = "fn:num" -> NumberValue
      [] tok = "hl:terms" -> ArrayValue(<<"t1", "t2">>)
      [] tok = "hl:none" -> ArrayValue(<<>>)
      [] tok = "hl:str" -> StringValue(<<"t1">>)
      [] tok = "cm:list" -> ArrayValue(<<"c1">>)
      [] tok = "cm:none" -> ArrayValue(<<>>)
      [] tok = "cm:str" -> StringValue(<<"c1">>)

EmptyObject ==
    [formattedNotes |-> Absent, highlights |-> Absent, comments |-> Absent]

\* The objects a reply may carry between its braces.
PayloadBodies ==
    { <<"fn:text", "hl:terms", "cm:list">>,
      <<"fn:text", "hl:terms", "cm:none">>,
      <<"fn:text", "hl:none", "cm:list">>,
      <<"fn:text", "hl:none", "cm:none">>,
      <<"fn:text", " ", "hl:terms">>,
      <<"hl:terms", "cm:list">>,
      <<"fn:num", "hl:str", "cm:str">>,
      <<"fn:empty", "hl:none", "hl:terms", "cm:list">>,
      <<>>,
      <<"fn:\"", Fence, "txt", Fence, "\"", "hl:terms", "cm:list">>,
      <<"fn:\"", "INTERNAL", "\"", "hl:none", "cm:none">>,
      <<"fn:\"", "overloaded", "\"">>,
      <<"fn:\"", "{", "txt", "\"", "hl:none">>,
      <<"fn:\"", "txt">>,
      <<"txt">> }

Payloads ==
    {<<"{">> \o body \o <<"}">> : body \in PayloadBodies}
        \cup {<<"null">>, <<"5">>, <<>>}

\* A payload as it stands, in a fenced block, in a fenced block tagged json.
Wrappings ==
    { <<<<>>, <<>>>>,
      <<<<Fence>>, <<Fence>>>>,
      <<<<Fence, "json", " ">>, <<" ", Fence>>>> }

ProseTokens == {"txt", "{", "}", "Error"}

Prose == SeqsUpTo(ProseTokens, MaxProse)

\* A reply of n one-character tokens that is no structured data.
Padding(n) == [i \in 1..n |-> "x"]

\* Replies just below, at and just above the length of the diagnostic excerpt.
LongReplies == {Padding(199), Padding(200), Padding(201)}

Contents ==
    {pre \o w[1] \o payload \o w[2] \o post :
        pre \in Prose, w \in Wrappings, payload \in Payloads, post \in Prose}
    \cup LongReplies

\* String.prototype.toLowerCase, token by token.
ToLowerToken(tok) ==
    CASE tok = "Error" -> "error"
      [] tok = "INTERNAL" -> "internal"
      [] tok = "Rate" -> "rate"
      [] OTHER -> tok

\* String.prototype.includes within one token: sub is the token or a part of it.
TokenIncludes(tok, sub) ==
    \/ tok = sub
    \/ <<tok, sub>> \in {<<"generate", "rate">>, <<"errors", "error">>}

Includes(tokens, sub) == \E i \in 1..Len(tokens) : TokenIncludes(tokens[i], sub)

ToLowerTokens(tokens) == [i \in 1..Len(tokens) |-> ToLowerToken(tokens[i])]

\* The messages of the errors client.chatCompletion throws.
ApiErrorMessages ==
    { <<"401", "Unauthorized">>,
      <<"Unauthorized">>,
      <<"429", "Too", "Many", "Requests">>,
      <<"rate", "limit">>,
      <<"Rate", "limit">>,
      <<"Model", "is", "overloaded">>,
      <<"overloaded", "429">>,
      <<"Failed", "to", "generate">>,
      <<"fetch", "failed">> }

\* The messages of the SyntaxError request.json() throws; they quote the body.
BodyErrorMessages ==
    { <<"Unexpected", "end", "of", "JSON", "input">>,
      <<"Unexpected", "token", "rate", "is", "not", "valid", "JSON">>,
      <<"Unexpected", "token", "authentication", "is", "not", "valid", "JSON">> }

RawOptionValues == {"true", "false", "missing"}

Bodies ==
    [json : {TRUE}, msg : {<<>>}, notes : {"missing", "empty", "text"},
     hasOptions : {TRUE}, options : [OptionNames -> RawOptionValues]]
    \cup
    [json : {TRUE}, msg : {<<>>}, notes : {"missing", "empty", "text"},
     hasOptions : {FALSE}, options : {[o \in OptionNames |-> "missing"]}]
    \cup
    [json : {FALSE}, msg : BodyErrorMessages, notes : {"missing"},
     hasOptions : {FALSE}, options : {[o \in OptionNames |-> "missing"]}]

(***************************************************************************)
(* POST /api/transform                                                     *)
(***************************************************************************)
DetailLimit == 200

NoOptions == [o \in OptionNames |-> FALSE]

NoDetails == <<>>

EmptyResult ==
    [formattedNotes |-> StringValue(<<>>), highlights |-> ArrayValue(<<>>),
     comments |-> ArrayValue(<<>>)]

NoResponse ==
    [status |-> 0, error |-> "", arg |-> <<>>, details |-> NoDetails,
     result |-> EmptyResult]

Failure(status, error, details) ==
    [status |-> status, error |-> error, arg |-> <<>>, details |-> details,
     result |-> EmptyResult]

Success(result) ==
    [status |-> 200, error |-> "", arg |-> <<>>, details |-> NoDetails,
     result |-> result]

ErrNoToken ==
    "HF_TOKEN environment variable is not set. Please configure your HuggingFace API token in .env.local"

ErrInvalidRequest == "Invalid request format"

ErrApiAuth == "HuggingFace API authentication failed. Check your HF_TOKEN is valid."

ErrApiRate == "HuggingFace API rate limit exceeded. Please try again in a moment."

ErrApiOverloaded == "HuggingFace model is currently overloaded. Please try again later."

\* The message of the error follows this prefix (field arg of the response).
ErrApiOther == "HuggingFace API Error: "

ErrNoContent == "No response content received from HuggingFace API"

ErrInBand ==
    "HuggingFace API returned an error. This may be due to: 1) API overload, 2) Invalid token, or 3) Model unavailable. Please try again in a few moments."

ErrParse ==
    "Failed to parse transformation response. The model may have returned invalid JSON. Please try again."

ErrAuth == "Authentication failed. Check HF_TOKEN environment variable."

ErrRate == "Rate limit exceeded. Please try again later."

ErrFailed == "Transformation failed"

ErrUnexpected == "An unexpected error occurred during transformation"

\* A schema that validates notes and accepts any options.
ZodIssuesNotesOnly(body) == IF body.notes = "text" THEN <<>> ELSE <<"notes">>

\* TransformRequestSchema.parse: the paths of the issues, in schema order.
ZodIssues(body) ==
    (IF body.notes = "text" THEN <<>> ELSE <<"notes">>)
    \o (IF ~body.hasOptions THEN <<"options">>
        ELSE (IF body.options["autoFormat"] = "missing"
                  THEN <<"options.autoFormat">> ELSE <<>>)
             \o (IF body.options["highlightKeyTerms"] = "missing"
                  THEN <<"options.highlightKeyTerms">> ELSE <<>>)
             \o (IF body.options["comments"] = "missing"
                  THEN <<"options.comments">> ELSE <<>>))

ValidatedOptions(body) == [o \in OptionNames |-> body.options[o] = "true"]

\* The instruction fragments.
AutoFormatFragment == "- Auto-Format: Apply markdown formatting"

NoAutoFormatFragment == "- Do NOT apply any formatting changes to the original notes"

HighlightFragment == "- Highlight Key Terms: Extract the most important terms and concepts"

NoHighlightFragment == "- Do NOT extract or highlight any key terms"

CommentsFragment == "- Comments/Insight: Generate helpful learning insights"

NoCommentsFragment == "- Do NOT generate any comments or insights"

\* The instruction block with the negative fragment of highlightKeyTerms left out.
InstructionsOmitNegative(options) ==
    <<IF options["autoFormat"] THEN AutoFormatFragment ELSE NoAutoFormatFragment>>
    \o (IF options["highlightKeyTerms"] THEN <<HighlightFragment>> ELSE <<>>)
    \o <<IF options["comments"] THEN CommentsFragment ELSE NoCommentsFragment>>

\* const instructions: string[] and its three if/else pushes.
Instructions(options) ==
    <<IF options["autoFormat"] THEN AutoFormatFragment ELSE NoAutoFormatFragment>>
    \o <<IF options["highlightKeyTerms"] THEN HighlightFragment
         ELSE NoHighlightFragment>>
    \o <<IF options["comments"] THEN CommentsFragment ELSE NoCommentsFragment>>

\* The examples of the OUTPUT FORMAT block.
OutputFormat(options) ==
    [highlights |-> IF options["highlightKeyTerms"]
                    THEN "[\"key\", \"terms\", \"here\"]" ELSE "[]",
     comments |-> IF options["comments"]
                  THEN "[\"comment1\", \"comment2\"]" ELSE "[]"]

\* The catch around client.chatCompletion, for an Error with this message.
ApiErrorResponse(msg) ==
    IF Includes(msg, "401") \/ Includes(msg, "Unauthorized")
    THEN Failure(401, ErrApiAuth, NoDetails)
    ELSE IF Includes(msg, "429") \/ Includes(msg, "rate")
    THEN Failure(429, ErrApiRate, NoDetails)
    ELSE IF Includes(msg, "overloaded")
    THEN Failure(503, ErrApiOverloaded, NoDetails)
    ELSE [Failure(500, ErrApiOther, NoDetails) EXCEPT !.arg = msg]

\* The outer catch, for an Error (not a ZodError) with this message.
OuterErrorResponse(msg) ==
    IF Includes(msg, "authentication") THEN Failure(401, ErrAuth, NoDetails)
    ELSE IF Includes(msg, "rate") THEN Failure(429, ErrRate, NoDetails)
    ELSE Failure(500, ErrFailed, msg)

\* The diagnostic detail without the cut at 200.
ExcerptWhole(content) == content

\* responseContent.substring(0, 200)
Excerpt(content) ==
    SubSeq(content, 1, IF Len(content) < DetailLimit THEN Len(content) ELSE DetailLimit)

ErrorPhrases == {"error", "internal", "overloaded"}

\* The scan with the upper-case spellings missed.
ContainsErrorPhraseCaseSensitive(content) ==
    \E phrase \in ErrorPhrases : Includes(content, phrase)

\* The in-band error test on responseContent.toLowerCase().
ContainsErrorPhrase(content) ==
    \E phrase \in ErrorPhrases : Includes(ToLowerTokens(content), phrase)

(***************************************************************************)
(* Response recovery: fence stripping, brace slicing, JSON.parse           *)
(***************************************************************************)
FenceIndexes(s) == {i \in 1..Len(s) : s[i] = Fence}

MinOf(S) == CHOOSE x \in S : \A y \in S : x <= y

MaxOf(S) == CHOOSE x \in S : \A y \in S : y <= x

\* The first index from i up to hi that holds no white space (hi + 1 if none).
RECURSIVE SkipWhitespace(_, _, _)
SkipWhitespace(s, i, hi) ==
    IF i <= hi /\ s[i] \in WhitespaceTokens THEN SkipWhitespace(s, i + 1, hi) ELSE i

\* The last index from hi down to lo that holds no white space (lo - 1 if none).
RECURSIVE LastNonWhitespace(_, _, _)
LastNonWhitespace(s, lo, hi) ==
    IF hi >= lo /\ s[hi] \in WhitespaceTokens
    THEN LastNonWhitespace(s, lo, hi - 1) ELSE hi

\* jsonContent.match(/FENCE(?:json)?\s*([\s\S]*?)\s*FENCE/): the leftmost fence, the
\* next fence after it, and between them the capture without the tag and
\* without the white space around it. No second fence: no match.
StripFence(s) ==
    IF Cardinality(FenceIndexes(s)) < 2 THEN s
    ELSE LET open == MinOf(FenceIndexes(s))
             close == MinOf(FenceIndexes(s) \ {open})
             afterTag == IF s[open + 1] = "json" THEN open + 2 ELSE open + 1
             first == SkipWhitespace(s, afterTag, close - 1)
             last == LastNonWhitespace(s, first, close - 1)
         IN  SubSeq(s, first, last)

\* jsonContent.match(/\{[\s\S]*\}/): from the first { to the last } after it.
SliceBraces(s) ==
    LET opens == {i \in 1..Len(s) : s[i] = "{"}
    IN  IF opens = {} THEN s
        ELSE LET closes == {j \in 1..Len(s) : s[j] = "}" /\ j > MinOf(opens)}
             IN  IF closes = {} THEN s
                 ELSE SubSeq(s, MinOf(opens), MaxOf(closes))

ParseFailure == [ok |-> FALSE, kind |-> "none", obj |-> EmptyObject]

\* The members of an object, from index i on; a later key replaces an earlier one.
RECURSIVE ParseMembers(_, _, _)
ParseMembers(s, i, obj) ==
    IF i > Len(s) THEN [ok |-> TRUE, kind |-> "object", obj |-> obj]
    ELSE IF s[i] \in WhitespaceTokens THEN ParseMembers(s, i + 1, obj)
    ELSE IF s[i] \in MemberTokens
    THEN ParseMembers(s, i + 1, [obj EXCEPT ![MemberKey(s[i])] = MemberValue(s[i])])
    ELSE IF s[i] = "fn:\""
    THEN LET quotes == {j \in (i + 1)..Len(s) : s[j] = "\""}
         IN  IF quotes = {} THEN ParseFailure
             ELSE ParseMembers(s, MinOf(quotes) + 1,
                      [obj EXCEPT !["formattedNotes"] =
                          StringValue(SubSeq(s, i + 1, MinOf(quotes) - 1))])
    ELSE ParseFailure

\* JSON.parse
JsonParse(s) ==
    LET first == SkipWhitespace(s, 1, Len(s))
        last == LastNonWhitespace(s, first, Len(s))
        t == SubSeq(s, first, last)
    IN  IF t = <<"null">> THEN [ok |-> TRUE, kind |-> "null", obj |-> EmptyObject]
        ELSE IF t = <<"5">> THEN [ok |-> TRUE, kind |-> "number", obj |-> EmptyObject]
        ELSE IF Len(t) >= 2 /\ t[1] = "{" /\ t[Len(t)] = "}"
        THEN ParseMembers(SubSeq(t, 2, Len(t) - 1), 1, EmptyObject)
        ELSE ParseFailure

\* Truthiness of a JSON value, for the || of formattedNotes.
Truthy(val) ==
    CASE val.kind = "string" -> val.v # <<>>
      [] val.kind = "number" -> TRUE
      [] val.kind = "array" -> TRUE
      [] OTHER -> FALSE

ArrayOrEmpty(val) == IF val.kind = "array" THEN val ELSE ArrayValue(<<>>)

\* transformResult = { formattedNotes, highlights, comments } with its defaults.
TransformResultOf(obj) ==
    [formattedNotes |-> IF Truthy(obj.formattedNotes) THEN obj.formattedNotes
                        ELSE StringValue(<<>>),
     highlights |-> ArrayOrEmpty(obj.highlights),
     comments |-> ArrayOrEmpty(obj.comments)]

\* A recovery that answers 200 with the defaults when nothing could be parsed.
RecoveryResponseLenient(content, jsonContent) ==
    LET parsed == JsonParse(jsonContent)
    IN  IF parsed.ok /\ parsed.kind # "null"
        THEN Success(TransformResultOf(parsed.obj))
        ELSE Success(EmptyResult)

\* The try block of the recovery and its catch: reading a member of null throws.
RecoveryResponse(content, jsonContent) ==
    LET parsed == JsonParse(jsonContent)
    IN  IF parsed.ok /\ parsed.kind # "null"
        THEN Success(TransformResultOf(parsed.obj))
        ELSE Failure(500, ErrParse, Excerpt(content))

(***************************************************************************)
(* The transform handler as a machine: one request, stage by stage         *)
(***************************************************************************)
NoOutputFormat == [highlights |-> "", comments |-> ""]

\* What the call threw: an Error with a message, or a value that is no Error.
Thrown(isError, msg) == [thrown |-> TRUE, isError |-> isError, msg |-> msg]

NothingThrown == [thrown |-> FALSE, isError |-> FALSE, msg |-> <<>>]

RouteIdle ==
    /\ rtPc = "off"
    /\ rtEnvToken = FALSE
    /\ rtBody = [json |-> FALSE, msg |-> <<>>, notes |-> "missing",
                 hasOptions |-> FALSE, options |-> [o \in OptionNames |-> "missing"]]
    /\ rtOptions = NoOptions
    /\ rtInstructions = <<>>
    /\ rtOutputFormat = NoOutputFormat
    /\ rtOutbound = 0
    /\ rtApiError = NothingThrown
    /\ rtContent = <<>>
    /\ rtJsonContent = <<>>
    /\ rtResponse = NoResponse

(***************************************************************************)
(* The transform orchestrator: useTransformLogic and useTermDefinitions    *)
(***************************************************************************)
\* null is the empty sequence and a value x is <<x>>.
Null == <<>>

\* The highlights a successful transform may return.
HighlightPool == {<<>>, <<"A">>, <<"B">>, <<"A", "B">>, <<"B", "B">>}

TermPool == {"A"}

\* The checkbox the user toggles: the one flag the hooks read. The other two
\* are only passed on in the request and stay as they start.
ToggledOptions == {"highlightKeyTerms"}

\* How the fetch of /api/transform may fail: an error response with an error
\* text, one without, a response whose body is not JSON, a rejected fetch.
TransformFailures == {"errorText", "noErrorText", "notJson", "network"}

TransformErrorMessage(failure) ==
    CASE failure = "errorText" -> "Transformation failed"
      [] failure = "noErrorText" -> "Failed to transform notes"
      [] failure = "notJson" -> "Unexpected token < in JSON at position 0"
      [] failure = "network" -> "Failed to fetch"

\* How one fetch of /api/term-definition may settle: a definition, an empty
\* definition, an error response ({ error }), a rejected fetch or a body that
\* is not JSON.
LookupOutcomes == {"ok", "empty", "errorResponse", "failed"}

NoDefinitionAvailable == <<"No definition available">>

FailedToLoadDefinition == <<"Failed to load definition">>

\* The .then/.then/.catch chain of one lookup.
DefinitionFor(term, outcome) ==
    CASE outcome = "ok" -> <<"definition of", term>>
      [] outcome = "empty" -> NoDefinitionAvailable
      [] outcome = "errorResponse" -> NoDefinitionAvailable
      [] outcome = "failed" -> FailedToLoadDefinition

TermsOf(terms) == {terms[i] : i \in 1..Len(terms)}

\* definitions.forEach(...): a later entry of a term replaces an earlier one.
DefinitionsMap(terms, outcomes) ==
    [t \in TermsOf(terms) |->
        LET i == MaxOf({j \in 1..Len(terms) : terms[j] = t})
        IN  DefinitionFor(t, outcomes[i])]

NewCall(options) ==
    [pc |-> "fetching", options |-> options, result |-> <<>>,
     terms |-> <<>>, outcomes |-> <<>>]

ResultWith(highlights) ==
    [formattedNotes |-> "notes", highlights |-> highlights, comments |-> <<>>]

\* The notes the store holds at the start, and the folders they are in.
NoteIDs == {"n1", "n2"}

FolderIDs == {"f1", "f2"}

FolderOf(id) == IF id = "n1" THEN "f1" ELSE "f2"

\* The content and the title of a stored note, token by token.
NoteContent(id) == <<id>>

NoteTitle(id) == <<id>>

\* useState("Untitled"), and the title createNote gives.
Untitled == <<"Untitled">>

\* The ids generateId gives to the notes created in a run, in order.
NewNoteIDs == <<"n3", "n4", "n5">>

InitialNotes ==
    {[id |-> id, folderID |-> FolderOf(id), title |-> NoteTitle(id),
      content |-> NoteContent(id)] : id \in NoteIDs}

ListEntry(note) == [id |-> note.id, folderID |-> note.folderID]

\* The store and the lists after loadAll, with no timer and no call made.
StoreIdle ==
    /\ noteLoads = {}
    /\ noteSwitches = 0
    /\ timers = {}
    /\ timerRef = <<>>
    /\ saveCleanup = FALSE
    /\ nextTimer = 1
    /\ lastSave = <<>>
    /\ edits = 0
    /\ dbFolders = FolderIDs
    /\ dbNotes = InitialNotes
    /\ folders = FolderIDs
    /\ notes = {ListEntry(note) : note \in InitialNotes}
    /\ storeOps = <<>>

\* No note selected, the editor empty.
EditorIdle ==
    /\ selectedNoteID = <<>>
    /\ editorContent = <<>>
    /\ editorTitle = Untitled
    /\ StoreIdle

\* The first note selected by the mount effect and loaded into the editor,
\* its first auto-save done.
EditorLoaded ==
    /\ selectedNoteID = <<"n1">>
    /\ editorContent = NoteContent("n1")
    /\ editorTitle = NoteTitle("n1")
    /\ StoreIdle

HooksIdle ==
    /\ transformOptions = NoOptions
    /\ isTransforming = FALSE
    /\ transformResult = Null
    /\ transformError = Null
    /\ termDefinitions = <<>>
    /\ selectedTerm = Null
    /\ isLoadingDefinitions = FALSE
    /\ calls = <<>>
    /\ defRequests = <<>>

OrchIdle ==
    /\ HooksIdle
    /\ EditorIdle

(***************************************************************************)
(* POST /api/term-definition                                               *)
(***************************************************************************)
\* term and context as the body carries them; context may be left out, and
\* "number" is a value that is no string.
RawTermValues == {"missing", "empty", "text"}

RawContextValues == {"missing", "empty", "text", "number"}

DefBodies ==
    [json : {TRUE}, msg : {<<>>}, term : RawTermValues, context : RawContextValues]
    \cup
    [json : {FALSE}, msg : BodyErrorMessages, term : {"missing"}, context : {"missing"}]

\* TermDefinitionSchema.parse: the paths of the issues, in schema order.
DefZodIssues(body) ==
    (IF body.term = "text" THEN <<>> ELSE <<"term">>)
    \o (IF body.context = "number" THEN <<"context">> ELSE <<>>)

\* const userMessage = context ? ... : ...
UserMessage(body) == IF body.context = "text" THEN "in context" ELSE "academic"

\* The contents a definition reply may hold; absent or empty is <<>>.
DefinitionReplies ==
    {<<>>, <<" ">>, <<"def">>, <<" ", "def", " ">>, <<"def", " ", "def">>,
     <<"Error">>}

\* String.prototype.trim
Trim(s) ==
    LET first == SkipWhitespace(s, 1, Len(s))
    IN  SubSeq(s, first, LastNonWhitespace(s, first, Len(s)))

ErrNoDefinition == "No definition received from HuggingFace API"

ErrDefUnexpected == "An unexpected error occurred while fetching the term definition"

NoDefResponse ==
    [status |-> 0, error |-> "", arg |-> <<>>, details |-> NoDetails,
     term |-> "", definition |-> <<>>]

DefFailure(status, error, details) ==
    [status |-> status, error |-> error, arg |-> <<>>, details |-> details,
     term |-> "", definition |-> <<>>]

DefSuccess(term, definition) ==
    [status |-> 200, error |-> "", arg |-> <<>>, details |-> NoDetails,
     term |-> term, definition |-> definition]

\* The catch around client.chatCompletion, for an Error with this message.
DefApiErrorResponse(msg) ==
    IF Includes(msg, "401") \/ Includes(msg, "Unauthorized")
    THEN DefFailure(401, ErrApiAuth, NoDetails)
    ELSE IF Includes(msg, "429") \/ Includes(msg, "rate")
    THEN DefFailure(429, ErrApiRate, NoDetails)
    ELSE [DefFailure(500, ErrApiOther, NoDetails) EXCEPT !.arg = msg]

NoDefBody == [json |-> FALSE, msg |-> <<>>, term |-> "missing", context |-> "missing"]

DefIdle ==
    /\ dfPc = "off"
    /\ dfEnvToken = FALSE
    /\ dfBody = NoDefBody
    /\ dfUserMessage = ""
    /\ dfOutbound = 0
    /\ dfDefinition = <<>>
    /\ dfResponse = NoDefResponse

(***************************************************************************)
(* The highlight engine as a machine: one render of a text, pass by pass   *)
(***************************************************************************)
\* The highlight engine before any call.
HLIdle ==
    /\ hlPc = "off"
    /\ hlContent = <<>>
    /\ hlKeyTerms = <<>>
    /\ hlQueue = <<>>
    /\ hlResult = <<>>
    /\ hlCleared = <<>>

HLInit ==
    /\ hlPc = "call"
    /\ hlContent \in Texts
    /\ hlKeyTerms \in TermLists
    /\ hlQueue = <<>>
    /\ hlResult = <<>>
    /\ hlCleared = <<>>
    /\ RouteIdle
    /\ OrchIdle
    /\ DefIdle

\* Entry: the early return for an empty list, else result and sortedTerms.
HighlightEnter ==
    /\ hlPc = "call"
    /\ hlResult' = hlContent
    /\ IF hlKeyTerms = <<>>
       THEN hlPc' = "returned" /\ hlQueue' = <<>>
       ELSE hlPc' = "loop" /\ hlQueue' = SortedTerms(hlKeyTerms)
    /\ UNCHANGED <<hlContent, hlKeyTerms, hlCleared>>
    /\ UNCHANGED <<rtVars, ocVars, dfVars, edVars>>

\* One iteration of the for loop.
HighlightPass ==
    /\ hlPc = "loop"
    /\ hlQueue # <<>>
    /\ hlResult' = HighlightTerm(hlResult, Head(hlQueue))
    /\ hlQueue' = Tail(hlQueue)
    /\ UNCHANGED <<hlPc, hlContent, hlKeyTerms, hlCleared>>
    /\ UNCHANGED <<rtVars, ocVars, dfVars, edVars>>

\* return result
HighlightReturn ==
    /\ hlPc = "loop"
    /\ hlQueue = <<>>
    /\ hlPc' = "returned"
    /\ UNCHANGED <<hlContent, hlKeyTerms, hlQueue, hlResult, hlCleared>>
    /\ UNCHANGED <<rtVars, ocVars, dfVars, edVars>>

\* removeHighlights applied to the highlighted string.
RemoveHighlightsCall ==
    /\ hlPc = "returned"
    /\ hlCleared' = removeHighlights(hlResult)
    /\ hlPc' = "cleared"
    /\ UNCHANGED <<hlContent, hlKeyTerms, hlQueue, hlResult>>
    /\ UNCHANGED <<rtVars, ocVars, dfVars, edVars>>

HLNext ==
    \/ HighlightEnter
    \/ HighlightPass
    \/ HighlightReturn
    \/ RemoveHighlightsCall

SpecHL == HLInit /\ [][HLNext]_vars


(***************************************************************************)
(* Reading a highlighted string back: the marker pairs and what they wrap  *)
(***************************************************************************)
\* out without its opening and closing markers.
RECURSIVE PlainFrom(_, _)
PlainFrom(out, i) ==
    IF i > Len(out) THEN <<>>
    ELSE IF StartsWithAt(out, i, OpenMark) THEN PlainFrom(out, i + Len(OpenMark))
    ELSE IF StartsWithAt(out, i, CloseMark) THEN PlainFrom(out, i + Len(CloseMark))
    ELSE <<out[i]>> \o PlainFrom(out, i + 1)

PlainOf(out) == PlainFrom(out, 1)

\* The marker pairs of out as <<start, length>> in the coordinates of
\* PlainOf(out); open holds the starts of the pairs not closed yet.
RECURSIVE SpansFrom(_, _, _, _)
SpansFrom(out, i, pos, open) ==
    IF i > Len(out) THEN {}
    ELSE IF StartsWithAt(out, i, OpenMark)
         THEN SpansFrom(out, i + Len(OpenMark), pos, <<pos + 1>> \o open)
    ELSE IF StartsWithAt(out, i, CloseMark)
         THEN IF open = <<>>
              THEN SpansFrom(out, i + Len(CloseMark), pos, open)
              ELSE {<<Head(open), pos + 1 - Head(open)>>}
                       \cup SpansFrom(out, i + Len(CloseMark), pos, Tail(open))
    ELSE SpansFrom(out, i + 1, pos + 1, open)

MarkedSpans(out) == SpansFrom(out, 1, 0, <<>>)

\* The deepest nesting of marker pairs in out.
RECURSIVE DepthFrom(_, _, _)
DepthFrom(out, i, depth) ==
    IF i > Len(out) THEN depth
    ELSE IF StartsWithAt(out, i, OpenMark)
         THEN LET rest == DepthFrom(out, i + Len(OpenMark), depth + 1)
              IN  IF rest > depth + 1 THEN rest ELSE depth + 1
    ELSE IF StartsWithAt(out, i, CloseMark)
         THEN LET rest == DepthFrom(out, i + Len(CloseMark), depth - 1)
              IN  IF rest > depth THEN rest ELSE depth
    ELSE DepthFrom(out, i + 1, depth)

MarkDepth(out) == DepthFrom(out, 1, 0)

\* term occurs in text at p as a whole word, letter case apart.
WholeWordAt(text, term, p) ==
    /\ p >= 1
    /\ p + Len(term) - 1 <= Len(text)
    /\ \A k \in 1..Len(term) : ToLowerCase(text[p + k - 1]) = ToLowerCase(term[k])
    /\ (p > 1 /\ text[p - 1] \in WordChars) # (text[p] \in WordChars)
    /\ (text[p + Len(term) - 1] \in WordChars)
           # (p + Len(term) <= Len(text) /\ text[p + Len(term)] \in WordChars)

\* The whole-word occurrences a scan from the left meets, none overlapping
\* the one before it.
RECURSIVE ScanOccurrences(_, _, _)
ScanOccurrences(text, term, p) ==
    IF p > Len(text) THEN {}
    ELSE IF WholeWordAt(text, term, p)
         THEN {p} \cup ScanOccurrences(text, term, p + Len(term))
         ELSE ScanOccurrences(text, term, p + 1)

\* Position p of text lies inside an open tag: the nearest '<' before it is
\* not yet closed by a '>'.
InOpenTagAt(text, p) ==
    LET opens == {i \in 1..(p - 1) : text[i] = "<"}
    IN  \E i \in opens : \A j \in (i + 1)..(p - 1) : text[j] # ">"

NonBlankTerms(terms) ==
    {terms[k] : k \in {j \in 1..Len(terms) : ~IsBlankTerm(terms[j])}}


(***************************************************************************)
(* Claims about the highlight engine (SpecHL)                              *)
(***************************************************************************)
SingleTermRun ==
    /\ hlPc = "returned"
    /\ Len(hlKeyTerms) = 1
    /\ ~IsBlankTerm(hlKeyTerms[1])

\* C4: markup safety, occurrence by occurrence: with one term, each
\* occurrence the scan meets is wrapped exactly when it does not lie inside
\* an open tag, whatever the other occurrences of the term do.
C4_MarkupSafetyPerOccurrence ==
    SingleTermRun =>
        \A p \in ScanOccurrences(hlContent, hlKeyTerms[1], 1) :
            (<<p, Len(hlKeyTerms[1])>> \in MarkedSpans(hlResult))
                <=> ~InOpenTagAt(hlContent, p)

\* C5: round trip: removing the markers from the highlighted string gives
\* back the marker-free text exactly, for every term list.
C5_RoundTrip == hlPc = "cleared" => hlCleared = hlContent

Reverse(seq) == [k \in 1..Len(seq) |-> seq[Len(seq) + 1 - k]]

DistinctLengths(terms) ==
    \A i, j \in 1..Len(terms) : i # j => Len(terms[i]) # Len(terms[j])

LongerOf(terms) == IF Len(terms[1]) > Len(terms[2]) THEN terms[1] ELSE terms[2]

ShorterOf(terms) == IF Len(terms[1]) > Len(terms[2]) THEN terms[2] ELSE terms[1]

\* Two terms, the shorter a whole-word part of the longer.
SubPhraseRun ==
    /\ hlPc = "returned"
    /\ Len(hlKeyTerms) = 2
    /\ NonBlankTerms(hlKeyTerms) = {hlKeyTerms[1], hlKeyTerms[2]}
    /\ Len(hlKeyTerms[1]) # Len(hlKeyTerms[2])
    /\ \E p \in 1..Len(LongerOf(hlKeyTerms)) :
           WholeWordAt(LongerOf(hlKeyTerms), ShorterOf(hlKeyTerms), p)

PermutationInvariant ==
    (hlPc = "returned" /\ DistinctLengths(hlKeyTerms))
        => hlResult = highlightKeyTerms(hlContent, Reverse(hlKeyTerms))

C7_WholeWordOnly ==
    hlPc = "returned" =>
        /\ PlainOf(hlResult) = hlContent
        /\ \A span \in MarkedSpans(hlResult) :
               \E term \in NonBlankTerms(hlKeyTerms) :
                   /\ Len(term) = span[2]
                   /\ WholeWordAt(hlContent, term, span[1])
        /\ (\A term \in NonBlankTerms(hlKeyTerms) :
                \A p \in 1..Len(hlContent) : ~WholeWordAt(hlContent, term, p))
               => hlResult = hlContent

\* "Bb B" with the term b: the fragment in Bb is left alone, the word B is
\* wrapped in its own casing.
C7_Witness ==
    /\ hlPc = "returned"
    /\ hlKeyTerms = << <<"b">> >>
    /\ hlContent = <<"B", "b", " ", "B">>
    /\ hlResult = <<"B", "b", " ">> \o OpenMark \o <<"B">> \o CloseMark

(***************************************************************************)
(* The transform handler, stage by stage                                   *)
(***************************************************************************)
RouteInit ==
    /\ rtPc = "start"
    /\ rtEnvToken \in BOOLEAN
    /\ rtBody \in Bodies
    /\ rtOptions = NoOptions
    /\ rtInstructions = <<>>
    /\ rtOutputFormat = NoOutputFormat
    /\ rtOutbound = 0
    /\ rtApiError = NothingThrown
    /\ rtContent = <<>>
    /\ rtJsonContent = <<>>
    /\ rtResponse = NoResponse
    /\ HLIdle
    /\ OrchIdle
    /\ DefIdle

\* The handler without the test of the credential.
CheckTokenSkipped ==
    /\ rtPc = "start"
    /\ rtPc' = "body"
    /\ UNCHANGED <<rtEnvToken, rtBody, rtOptions, rtInstructions, rtOutputFormat,
                   rtOutbound, rtContent, rtJsonContent, rtResponse>>
    /\ UNCHANGED <<hlVars, ocVars, dfVars, edVars>>
    /\ UNCHANGED rtApiError

\* if (!process.env.HF_TOKEN) return 401
CheckToken ==
    /\ rtPc = "start"
    /\ IF rtEnvToken
       THEN rtPc' = "body" /\ UNCHANGED rtResponse
       ELSE rtPc' = "done" /\ rtResponse' = Failure(401, ErrNoToken, NoDetails)
    /\ UNCHANGED <<rtEnvToken, rtBody, rtOptions, rtInstructions, rtOutputFormat,
                   rtOutbound, rtContent, rtJsonContent>>
    /\ UNCHANGED <<hlVars, ocVars, dfVars, edVars>>
    /\ UNCHANGED rtApiError

\* await request.json(), then TransformRequestSchema.parse(body)
ReadBody ==
    /\ rtPc = "body"
    /\ IF ~rtBody.json
       THEN /\ rtPc' = "done"
            /\ rtResponse' = OuterErrorResponse(rtBody.msg)
            /\ UNCHANGED rtOptions
       ELSE IF ZodIssues(rtBody) # <<>>
       THEN /\ rtPc' = "done"
            /\ rtResponse' = Failure(400, ErrInvalidRequest, ZodIssues(rtBody))
            /\ UNCHANGED rtOptions
       ELSE /\ rtPc' = "prompt"
            /\ rtOptions' = ValidatedOptions(rtBody)
            /\ UNCHANGED rtResponse
    /\ UNCHANGED <<rtEnvToken, rtBody, rtInstructions, rtOutputFormat, rtOutbound,
                   rtContent, rtJsonContent>>
    /\ UNCHANGED <<hlVars, ocVars, dfVars, edVars>>
    /\ UNCHANGED rtApiError

\* The instruction block and the output format of the system prompt.
BuildPrompt ==
    /\ rtPc = "prompt"
    /\ rtInstructions' = Instructions(rtOptions)
    /\ rtOutputFormat' = OutputFormat(rtOptions)
    /\ rtPc' = "call"
    /\ UNCHANGED <<rtEnvToken, rtBody, rtOptions, rtOutbound, rtContent,
                   rtJsonContent, rtResponse>>
    /\ UNCHANGED <<hlVars, ocVars, dfVars, edVars>>
    /\ UNCHANGED rtApiError

\* client.chatCompletion({...}) is sent.
CallInference ==
    /\ rtPc = "call"
    /\ rtOutbound' = rtOutbound + 1
    /\ rtPc' = "await"
    /\ UNCHANGED <<rtEnvToken, rtBody, rtOptions, rtInstructions, rtOutputFormat,
                   rtContent, rtJsonContent, rtResponse>>
    /\ UNCHANGED <<hlVars, ocVars, dfVars, edVars>>
    /\ UNCHANGED rtApiError

\* chatCompletion throws an Error: the catch around the call.
InferenceThrows ==
    /\ rtPc = "await"
    /\ \E msg \in ApiErrorMessages :
         /\ rtApiError' = Thrown(TRUE, msg)
         /\ rtResponse' = ApiErrorResponse(msg)
    /\ rtPc' = "done"
    /\ UNCHANGED <<rtEnvToken, rtBody, rtOptions, rtInstructions, rtOutputFormat,
                   rtOutbound, rtContent, rtJsonContent>>
    /\ UNCHANGED <<hlVars, ocVars, dfVars, edVars>>

\* chatCompletion throws a value that is no Error: rethrown to the outer catch.
InferenceThrowsOther ==
    /\ rtPc = "await"
    /\ rtApiError' = Thrown(FALSE, <<>>)
    /\ rtResponse' = Failure(500, ErrUnexpected, NoDetails)
    /\ rtPc' = "done"
    /\ UNCHANGED <<rtEnvToken, rtBody, rtOptions, rtInstructions, rtOutputFormat,
                   rtOutbound, rtContent, rtJsonContent>>
    /\ UNCHANGED <<hlVars, ocVars, dfVars, edVars>>

\* chatCompletion returns a value without choices: reading choices[0] throws a
\* TypeError, which the outer catch answers.
InferenceReturnsMalformed ==
    /\ rtPc = "await"
    /\ rtResponse' = OuterErrorResponse(
           <<"Cannot", "read", "properties", "of", "undefined">>)
    /\ rtPc' = "done"
    /\ UNCHANGED <<rtEnvToken, rtBody, rtOptions, rtInstructions, rtOutputFormat,
                   rtOutbound, rtContent, rtJsonContent>>
    /\ UNCHANGED <<hlVars, ocVars, dfVars, edVars>>
    /\ UNCHANGED rtApiError

\* chatCompletion returns; an absent or empty content is the empty sequence.
InferenceReturns ==
    /\ rtPc = "await"
    /\ \E content \in Contents :
         /\ rtContent' = content
         /\ IF content = <<>>
            THEN rtPc' = "done" /\ rtResponse' = Failure(500, ErrNoContent, NoDetails)
            ELSE rtPc' = "scan" /\ UNCHANGED rtResponse
    /\ UNCHANGED <<rtEnvToken, rtBody, rtOptions, rtInstructions, rtOutputFormat,
                   rtOutbound, rtJsonContent>>
    /\ UNCHANGED <<hlVars, ocVars, dfVars, edVars>>
    /\ UNCHANGED rtApiError

\* The in-band error scan.
ScanContent ==
    /\ rtPc = "scan"
    /\ IF ContainsErrorPhrase(rtContent)
       THEN rtPc' = "done" /\ rtResponse' = Failure(503, ErrInBand, Excerpt(rtContent))
       ELSE rtPc' = "recover" /\ UNCHANGED rtResponse
    /\ UNCHANGED <<rtEnvToken, rtBody, rtOptions, rtInstructions, rtOutputFormat,
                   rtOutbound, rtContent, rtJsonContent>>
    /\ UNCHANGED <<hlVars, ocVars, dfVars, edVars>>
    /\ UNCHANGED rtApiError

\* The recovery try block, its catch, and the 200 response.
RecoverContent ==
    /\ rtPc = "recover"
    /\ rtJsonContent' = SliceBraces(StripFence(rtContent))
    /\ rtResponse' = RecoveryResponse(rtContent, rtJsonContent')
    /\ rtPc' = "done"
    /\ UNCHANGED <<rtEnvToken, rtBody, rtOptions, rtInstructions, rtOutputFormat,
                   rtOutbound, rtContent>>
    /\ UNCHANGED <<hlVars, ocVars, dfVars, edVars>>
    /\ UNCHANGED rtApiError

RouteNext ==
    \/ CheckToken
    \/ ReadBody
    \/ BuildPrompt
    \/ CallInference
    \/ InferenceThrows
    \/ InferenceThrowsOther
    \/ InferenceReturnsMalformed
    \/ InferenceReturns
    \/ ScanContent
    \/ RecoverContent

SpecRoute == RouteInit /\ [][RouteNext]_vars


(***************************************************************************)
(* TermDefinitionPopup: what the popup renders from the hook's state       *)
(***************************************************************************)
LoadingIndicator == <<"Loading...">>

AbsentIndicator == <<"No definition available">>

\* Nothing is rendered without a selected term; else the loading indicator
\* while isLoadingDefinitions, else the truthy cache entry of the term, else
\* the absent indicator.
TermDefinitionPopup ==
    IF selectedTerm = Null THEN Null
    ELSE IF isLoadingDefinitions THEN <<LoadingIndicator>>
    ELSE IF selectedTerm[1] \in DOMAIN termDefinitions
              /\ termDefinitions[selectedTerm[1]] # <<>>
         THEN <<termDefinitions[selectedTerm[1]]>>
         ELSE <<AbsentIndicator>>

(***************************************************************************)
(* The hooks as a machine: handlers, fetches in flight, their completions  *)
(***************************************************************************)
OrchInit ==
    /\ OrchIdle
    /\ HLIdle
    /\ RouteIdle
    /\ DefIdle

\* setTransformOptions((prev) => ({ ...prev, [option]: !prev[option] }))
HandleOptionChange ==
    /\ \E option \in ToggledOptions :
         transformOptions' = [transformOptions EXCEPT ![option] = ~@]
    /\ UNCHANGED <<isTransforming, transformResult, transformError, termDefinitions,
                   selectedTerm, isLoadingDefinitions, calls, defRequests>>
    /\ UNCHANGED <<hlVars, rtVars, dfVars, edVars>>

\* The start of handleConfirmTransform, up to its fetch of /api/transform.
StartTransform ==
    /\ Len(calls) < MaxTransforms
    /\ calls' = Append(calls, NewCall(transformOptions))
    /\ isTransforming' = TRUE
    /\ transformError' = Null
    /\ transformResult' = Null
    /\ UNCHANGED <<transformOptions, termDefinitions, selectedTerm,
                   isLoadingDefinitions, defRequests>>
    /\ UNCHANGED <<hlVars, rtVars, dfVars, edVars>>

\* The Apply button of TransformSidebar, disabled while isTransforming.
HandleApplyTransform ==
    /\ ~isTransforming
    /\ StartTransform

\* handleConfirmTransform called on the hook while a transform is in flight:
\* the hook tests nothing, only the button does.
HandleConfirmTransform ==
    /\ isTransforming
    /\ StartTransform

\* The fetch of call k is answered with a result: setTransformResult, then
\* either the start of loadTermDefinitions (one fetch per term) or the finally.
TransformSucceeds ==
    \E k \in 1..Len(calls), highlights \in HighlightPool :
      /\ calls[k].pc = "fetching"
      /\ transformResult' = <<ResultWith(highlights)>>
      /\ IF calls[k].options["highlightKeyTerms"] /\ Len(highlights) > 0
         THEN /\ calls' = [calls EXCEPT ![k] =
                     [@ EXCEPT !.pc = "loading", !.terms = highlights,
                               !.result = <<ResultWith(highlights)>>,
                               !.outcomes = [i \in 1..Len(highlights) |-> "pending"]]]
              /\ isLoadingDefinitions' = TRUE
              /\ defRequests' = defRequests \o
                     [i \in 1..Len(highlights) |-> [call |-> k, term |-> highlights[i]]]
              /\ UNCHANGED isTransforming
         ELSE /\ calls' = [calls EXCEPT ![k] =
                     [@ EXCEPT !.pc = "done", !.result = <<ResultWith(highlights)>>]]
              /\ isTransforming' = FALSE
              /\ UNCHANGED <<isLoadingDefinitions, defRequests>>
      /\ UNCHANGED <<transformOptions, transformError, termDefinitions, selectedTerm>>
      /\ UNCHANGED <<hlVars, rtVars, dfVars, edVars>>

\* The fetch of call k fails: the catch and the finally.
TransformFails ==
    \E k \in 1..Len(calls), failure \in TransformFailures :
      /\ calls[k].pc = "fetching"
      /\ transformError' = <<TransformErrorMessage(failure)>>
      /\ isTransforming' = FALSE
      /\ calls' = [calls EXCEPT ![k] = [@ EXCEPT !.pc = "done"]]
      /\ UNCHANGED <<transformOptions, transformResult, termDefinitions,
                     selectedTerm, isLoadingDefinitions, defRequests>>
      /\ UNCHANGED <<hlVars, rtVars, dfVars, edVars>>

\* A batch that stores what it has as each lookup settles.
LookupSettlesIncremental ==
    \E k \in 1..Len(calls) :
      /\ calls[k].pc = "loading"
      /\ \E i \in 1..Len(calls[k].terms), outcome \in LookupOutcomes :
           /\ calls[k].outcomes[i] = "pending"
           /\ LET outcomes == [calls[k].outcomes EXCEPT ![i] = outcome]
                  settled == \A j \in 1..Len(outcomes) : outcomes[j] # "pending"
              IN  /\ termDefinitions' =
                         [t \in DOMAIN termDefinitions \cup {calls[k].terms[i]} |->
                             IF t = calls[k].terms[i]
                             THEN DefinitionFor(t, outcome) ELSE termDefinitions[t]]
                  /\ calls' = [calls EXCEPT ![k] =
                         [@ EXCEPT !.pc = IF settled THEN "done" ELSE "loading",
                                   !.outcomes = outcomes]]
                  /\ isLoadingDefinitions' = (IF settled THEN FALSE
                                              ELSE isLoadingDefinitions)
                  /\ isTransforming' = (IF settled THEN FALSE ELSE isTransforming)
      /\ UNCHANGED <<transformOptions, transformResult, transformError, selectedTerm,
                     defRequests>>
      /\ UNCHANGED <<hlVars, rtVars, dfVars, edVars>>

\* One lookup of batch k settles. With the last one Promise.all resolves: the
\* map is built and stored, then the two finally blocks run.
LookupSettles ==
    \E k \in 1..Len(calls) :
      /\ calls[k].pc = "loading"
      /\ \E i \in 1..Len(calls[k].terms), outcome \in LookupOutcomes :
           /\ calls[k].outcomes[i] = "pending"
           /\ LET outcomes == [calls[k].outcomes EXCEPT ![i] = outcome]
                  settled == \A j \in 1..Len(outcomes) : outcomes[j] # "pending"
              IN  IF settled
                  THEN /\ calls' = [calls EXCEPT ![k] =
                              [@ EXCEPT !.pc = "done", !.outcomes = outcomes]]
                       /\ termDefinitions' = DefinitionsMap(calls[k].terms, outcomes)
                       /\ isLoadingDefinitions' = FALSE
                       /\ isTransforming' = FALSE
                  ELSE /\ calls' = [calls EXCEPT ![k] = [@ EXCEPT !.outcomes = outcomes]]
                       /\ UNCHANGED <<termDefinitions, isLoadingDefinitions,
                                      isTransforming>>
      /\ UNCHANGED <<transformOptions, transformResult, transformError, selectedTerm,
                     defRequests>>
      /\ UNCHANGED <<hlVars, rtVars, dfVars, edVars>>

\* setSelectedTerm(term)
HandleTermClick ==
    /\ \E term \in TermPool : selectedTerm' = <<term>>
    /\ UNCHANGED <<transformOptions, isTransforming, transformResult, transformError,
                   termDefinitions, isLoadingDefinitions, calls, defRequests>>
    /\ UNCHANGED <<hlVars, rtVars, dfVars, edVars>>

\* The render that follows a change of selectedNoteID, editorTitle or
\* editorContent to these values: the cleanup of the previous run of the
\* auto-save effect, if that run returned one, then the effect itself.
AutoSaveEffect(id, title, content) ==
    IF <<id, title, content>> = <<selectedNoteID, editorTitle, editorContent>>
    THEN UNCHANGED <<timers, timerRef, saveCleanup, nextTimer>>
    ELSE LET cleaned == IF saveCleanup
                        THEN {t \in timers : <<t.handle>> # timerRef}
                        ELSE timers
         IN  IF id = <<>> \/ content = <<>>
             THEN /\ timers' = cleaned
                  /\ saveCleanup' = FALSE
                  /\ UNCHANGED <<timerRef, nextTimer>>
             ELSE /\ timers' = {t \in cleaned : <<t.handle>> # timerRef}
                        \cup {[handle |-> nextTimer, note |-> id[1],
                               title |-> title, content |-> content]}
                  /\ timerRef' = <<nextTimer>>
                  /\ nextTimer' = nextTimer + 1
                  /\ saveCleanup' = TRUE

\* A note of the sidebar is clicked: onSelectNote(note.id); the load effect
\* starts getNoteById for it and the auto-save effect runs for the new id.
OnSelectNote ==
    /\ noteSwitches < MaxSwitches
    /\ \E id \in {n.id : n \in notes} :
         /\ selectedNoteID # <<id>>
         /\ selectedNoteID' = <<id>>
         /\ noteLoads' = noteLoads \cup {id}
         /\ AutoSaveEffect(<<id>>, editorTitle, editorContent)
    /\ noteSwitches' = noteSwitches + 1
    /\ UNCHANGED <<editorContent, editorTitle, lastSave, edits, dbFolders, dbNotes,
                   folders, notes, storeOps>>
    /\ UNCHANGED <<hlVars, rtVars, ocVars, dfVars>>

\* getNoteById resolves: the load effect fills the editor with the note, if
\* the store still holds it, and the auto-save effect runs.
LoadNoteEffect ==
    /\ \E id \in noteLoads :
         /\ noteLoads' = noteLoads \ {id}
         /\ IF \E note \in dbNotes : note.id = id
            THEN LET note == CHOOSE note \in dbNotes : note.id = id
                 IN  /\ editorContent' = note.content
                     /\ editorTitle' = note.title
                     /\ AutoSaveEffect(selectedNoteID, note.title, note.content)
            ELSE UNCHANGED <<editorContent, editorTitle, timers, timerRef,
                             saveCleanup, nextTimer>>
    /\ UNCHANGED <<selectedNoteID, noteSwitches, lastSave, edits, dbFolders, dbNotes,
                   folders, notes, storeOps>>
    /\ UNCHANGED <<hlVars, rtVars, ocVars, dfVars>>

OrchNext ==
    \/ OnSelectNote
    \/ LoadNoteEffect
    \/ HandleOptionChange
    \/ HandleApplyTransform
    \/ HandleConfirmTransform
    \/ TransformSucceeds
    \/ TransformFails
    \/ LookupSettles
    \/ HandleTermClick

SpecOrch == OrchInit /\ [][OrchNext]_vars

\* Every fetch that is in flight settles: the transform request of a call,
\* and each lookup of a batch.
OrchFairness ==
    /\ WF_vars(TransformSucceeds \/ TransformFails)
    /\ WF_vars(LookupSettles)

SpecOrchLive == OrchInit /\ [][OrchNext]_vars /\ OrchFairness

(***************************************************************************)
(* The editor and the notes store as a machine: typing, the debounced      *)
(* auto-save, note creation and folder deletion                            *)
(***************************************************************************)
NotesInit ==
    /\ HooksIdle
    /\ EditorLoaded
    /\ HLIdle
    /\ RouteIdle
    /\ DefIdle

\* handleContentChange(content): a character typed, or all of the text deleted.
HandleContentChange ==
    /\ edits < MaxEdits
    /\ \E content \in {Append(editorContent, "x"), <<>>} :
         /\ content # editorContent
         /\ editorContent' = content
         /\ AutoSaveEffect(selectedNoteID, editorTitle, content)
    /\ edits' = edits + 1
    /\ UNCHANGED <<selectedNoteID, noteLoads, noteSwitches, editorTitle, lastSave,
                   dbFolders, dbNotes, folders, notes, storeOps>>
    /\ UNCHANGED <<hlVars, rtVars, ocVars, dfVars>>

\* handleTitleChange(title): a character typed into the title.
HandleTitleChange ==
    /\ edits < MaxEdits
    /\ editorTitle' = Append(editorTitle, "t")
    /\ AutoSaveEffect(selectedNoteID, editorTitle', editorContent)
    /\ edits' = edits + 1
    /\ UNCHANGED <<selectedNoteID, editorContent, noteLoads, noteSwitches, lastSave,
                   dbFolders, dbNotes, folders, notes, storeOps>>
    /\ UNCHANGED <<hlVars, rtVars, ocVars, dfVars>>

\* handleClear with the confirm accepted: setEditorContent("").
HandleClear ==
    /\ edits < MaxEdits
    /\ editorContent # <<>>
    /\ editorContent' = <<>>
    /\ AutoSaveEffect(selectedNoteID, editorTitle, <<>>)
    /\ edits' = edits + 1
    /\ UNCHANGED <<selectedNoteID, noteLoads, noteSwitches, editorTitle, lastSave,
                   dbFolders, dbNotes, folders, notes, storeOps>>
    /\ UNCHANGED <<hlVars, rtVars, ocVars, dfVars>>

\* updateNoteContent(noteID, title, content): db.notes.update writes the two
\* fields of the record with this id, and nothing when there is none.
UpdateNoteContent(noteID, title, content) ==
    {IF note.id = noteID
     THEN [note EXCEPT !.title = title, !.content = content]
     ELSE note : note \in dbNotes}

\* A pending timer fires: its callback saves what its closure holds.
TimerFires ==
    /\ \E t \in timers :
         /\ timers' = timers \ {t}
         /\ dbNotes' = UpdateNoteContent(t.note, t.title, t.content)
         /\ lastSave' = <<[note |-> t.note, title |-> t.title, content |-> t.content]>>
    /\ UNCHANGED <<selectedNoteID, editorContent, noteLoads, noteSwitches, editorTitle,
                   timerRef, saveCleanup, nextTimer, edits, dbFolders, folders, notes,
                   storeOps>>
    /\ UNCHANGED <<hlVars, rtVars, ocVars, dfVars>>

NewOp(kind, folderID) ==
    [kind |-> kind, folder |-> folderID, pc |-> "db", note |-> "",
     selected |-> selectedNoteID, listed |-> notes]

\* The transactions of the store run in the order they were asked for.
NextInLine(k, pc) ==
    /\ k \in 1..Len(storeOps)
    /\ storeOps[k].pc = pc
    /\ \A j \in 1..(k - 1) : storeOps[j].pc = "done"

\* handleCreateNote(folderID) is called for a folder of the list.
HandleCreateNote ==
    /\ Len(storeOps) < MaxOps
    /\ \E f \in folders : storeOps' = Append(storeOps, NewOp("create", f))
    /\ UNCHANGED <<selectedNoteID, editorContent, noteLoads, noteSwitches, editorTitle,
                   timers, timerRef, saveCleanup, nextTimer, lastSave, edits,
                   dbFolders, dbNotes, folders, notes>>
    /\ UNCHANGED <<hlVars, rtVars, ocVars, dfVars>>

\* createNote: db.notes.add(note).
CreateNoteCommit ==
    /\ \E k \in 1..Len(storeOps) :
         /\ storeOps[k].kind = "create"
         /\ storeOps[k].pc = "db"
         /\ \A j \in 1..(k - 1) : storeOps[j].pc # "db"
         /\ dbNotes' = dbNotes \cup
                {[id |-> NewNoteIDs[k], folderID |-> storeOps[k].folder,
                  title |-> Untitled, content |-> <<>>]}
         /\ storeOps' = [storeOps EXCEPT ![k] =
                            [@ EXCEPT !.pc = "ui", !.note = NewNoteIDs[k]]]
    /\ UNCHANGED <<selectedNoteID, editorContent, noteLoads, noteSwitches, editorTitle,
                   timers, timerRef, saveCleanup, nextTimer, lastSave, edits,
                   dbFolders, folders, notes>>
    /\ UNCHANGED <<hlVars, rtVars, ocVars, dfVars>>

\* handleCreateNote resumes: the note joins the list and is selected.
CreateNoteDone ==
    /\ \E k \in 1..Len(storeOps) :
         /\ storeOps[k].kind = "create"
         /\ NextInLine(k, "ui")
         /\ notes' = notes \cup {[id |-> storeOps[k].note,
                                  folderID |-> storeOps[k].folder]}
         /\ selectedNoteID' = <<storeOps[k].note>>
         /\ noteLoads' = noteLoads \cup {storeOps[k].note}
         /\ AutoSaveEffect(<<storeOps[k].note>>, editorTitle, editorContent)
         /\ storeOps' = [storeOps EXCEPT ![k] = [@ EXCEPT !.pc = "done"]]
    /\ UNCHANGED <<editorContent, noteSwitches, editorTitle, lastSave, edits,
                   dbFolders, dbNotes, folders>>
    /\ UNCHANGED <<hlVars, rtVars, ocVars, dfVars>>

\* handleDeleteFolder(folderID) is called for a folder of the list.
HandleDeleteFolder ==
    /\ Len(storeOps) < MaxOps
    /\ \E f \in folders : storeOps' = Append(storeOps, NewOp("delete", f))
    /\ UNCHANGED <<selectedNoteID, editorContent, noteLoads, noteSwitches, editorTitle,
                   timers, timerRef, saveCleanup, nextTimer, lastSave, edits,
                   dbFolders, dbNotes, folders, notes>>
    /\ UNCHANGED <<hlVars, rtVars, ocVars, dfVars>>

\* deleteFolder: one transaction deletes the notes of the folder and the folder.
DeleteFolderCommit ==
    /\ \E k \in 1..Len(storeOps) :
         /\ storeOps[k].kind = "delete"
         /\ storeOps[k].pc = "db"
         /\ \A j \in 1..(k - 1) : storeOps[j].pc # "db"
         /\ dbNotes' = {note \in dbNotes : note.folderID # storeOps[k].folder}
         /\ dbFolders' = dbFolders \ {storeOps[k].folder}
         /\ storeOps' = [storeOps EXCEPT ![k] = [@ EXCEPT !.pc = "ui"]]
    /\ UNCHANGED <<selectedNoteID, editorContent, noteLoads, noteSwitches, editorTitle,
                   timers, timerRef, saveCleanup, nextTimer, lastSave, edits,
                   folders, notes>>
    /\ UNCHANGED <<hlVars, rtVars, ocVars, dfVars>>

\* handleDeleteFolder resumes: the two lists are filtered, and the selection
\* is cleared when the note selected at the time of the call was listed in
\* the folder; the load effect then empties the editor.
DeleteFolderDone ==
    /\ \E k \in 1..Len(storeOps) :
         /\ storeOps[k].kind = "delete"
         /\ NextInLine(k, "ui")
         /\ folders' = folders \ {storeOps[k].folder}
         /\ notes' = {n \in notes : n.folderID # storeOps[k].folder}
         /\ storeOps' = [storeOps EXCEPT ![k] = [@ EXCEPT !.pc = "done"]]
         /\ IF /\ storeOps[k].selected # <<>>
               /\ \E n \in storeOps[k].listed :
                    n.id = storeOps[k].selected[1] /\ n.folderID = storeOps[k].folder
            THEN /\ selectedNoteID' = <<>>
                 /\ editorContent' = <<>>
                 /\ editorTitle' = Untitled
                 /\ AutoSaveEffect(<<>>, Untitled, <<>>)
            ELSE UNCHANGED <<selectedNoteID, editorContent, editorTitle, timers,
                             timerRef, saveCleanup, nextTimer>>
    /\ UNCHANGED <<noteLoads, noteSwitches, lastSave, edits, dbFolders, dbNotes>>
    /\ UNCHANGED <<hlVars, rtVars, ocVars, dfVars>>

NotesNext ==
    \/ OnSelectNote
    \/ LoadNoteEffect
    \/ HandleContentChange
    \/ HandleTitleChange
    \/ HandleClear
    \/ TimerFires
    \/ HandleCreateNote
    \/ CreateNoteCommit
    \/ CreateNoteDone
    \/ HandleDeleteFolder
    \/ DeleteFolderCommit
    \/ DeleteFolderDone

SpecNotes == NotesInit /\ [][NotesNext]_vars


(***************************************************************************)
(* The definition handler, stage by stage                                  *)
(***************************************************************************)
DefInit ==
    /\ dfPc = "start"
    /\ dfEnvToken \in BOOLEAN
    /\ dfBody \in DefBodies
    /\ dfUserMessage = ""
    /\ dfOutbound = 0
    /\ dfDefinition = <<>>
    /\ dfResponse = NoDefResponse
    /\ HLIdle
    /\ RouteIdle
    /\ OrchIdle

\* if (!process.env.HF_TOKEN) return 401
DefCheckToken ==
    /\ dfPc = "start"
    /\ IF dfEnvToken
       THEN dfPc' = "body" /\ UNCHANGED dfResponse
       ELSE dfPc' = "done" /\ dfResponse' = DefFailure(401, ErrNoToken, NoDetails)
    /\ UNCHANGED <<dfEnvToken, dfBody, dfUserMessage, dfOutbound, dfDefinition>>
    /\ UNCHANGED <<hlVars, rtVars, ocVars, edVars>>

\* await request.json(), then TermDefinitionSchema.parse(body); the outer catch
\* answers the SyntaxError of a body that is not JSON with the generic 500.
DefReadBody ==
    /\ dfPc = "body"
    /\ IF ~dfBody.json
       THEN dfPc' = "done" /\ dfResponse' = DefFailure(500, ErrDefUnexpected, NoDetails)
       ELSE IF DefZodIssues(dfBody) # <<>>
       THEN /\ dfPc' = "done"
            /\ dfResponse' = DefFailure(400, ErrInvalidRequest, DefZodIssues(dfBody))
       ELSE dfPc' = "prompt" /\ UNCHANGED dfResponse
    /\ UNCHANGED <<dfEnvToken, dfBody, dfUserMessage, dfOutbound, dfDefinition>>
    /\ UNCHANGED <<hlVars, rtVars, ocVars, edVars>>

\* The user message, then client.chatCompletion({...}) is sent.
DefCallInference ==
    /\ dfPc = "prompt"
    /\ dfUserMessage' = UserMessage(dfBody)
    /\ dfOutbound' = dfOutbound + 1
    /\ dfPc' = "await"
    /\ UNCHANGED <<dfEnvToken, dfBody, dfDefinition, dfResponse>>
    /\ UNCHANGED <<hlVars, rtVars, ocVars, edVars>>

\* chatCompletion throws an Error: the catch around the call.
DefInferenceThrows ==
    /\ dfPc = "await"
    /\ \E msg \in ApiErrorMessages : dfResponse' = DefApiErrorResponse(msg)
    /\ dfPc' = "done"
    /\ UNCHANGED <<dfEnvToken, dfBody, dfUserMessage, dfOutbound, dfDefinition>>
    /\ UNCHANGED <<hlVars, rtVars, ocVars, edVars>>

\* chatCompletion throws a value that is no Error, or returns a value without
\* choices: the outer catch.
DefInferenceThrowsOther ==
    /\ dfPc = "await"
    /\ dfResponse' = DefFailure(500, ErrDefUnexpected, NoDetails)
    /\ dfPc' = "done"
    /\ UNCHANGED <<dfEnvToken, dfBody, dfUserMessage, dfOutbound, dfDefinition>>
    /\ UNCHANGED <<hlVars, rtVars, ocVars, edVars>>

\* chatCompletion returns: no content is a 500, any other is trimmed and sent.
DefInferenceReturns ==
    /\ dfPc = "await"
    /\ \E definition \in DefinitionReplies :
         /\ dfDefinition' = definition
         /\ dfResponse' = IF definition = <<>>
                          THEN DefFailure(500, ErrNoDefinition, NoDetails)
                          ELSE DefSuccess("text", Trim(definition))
    /\ dfPc' = "done"
    /\ UNCHANGED <<dfEnvToken, dfBody, dfUserMessage, dfOutbound>>
    /\ UNCHANGED <<hlVars, rtVars, ocVars, edVars>>

DefNext ==
    \/ DefCheckToken
    \/ DefReadBody
    \/ DefCallInference
    \/ DefInferenceThrows
    \/ DefInferenceThrowsOther
    \/ DefInferenceReturns

SpecDef == DefInit /\ [][DefNext]_vars

\* One request to either endpoint of the deployment.
ApiInit == RouteInit \/ DefInit

ApiNext == RouteNext \/ DefNext

SpecApi == ApiInit /\ [][ApiNext]_vars

(***************************************************************************)
(* Reading a response and a batch back                                     *)
(***************************************************************************)
\* The spellings of the three error phrases among the tokens of a reply.
ErrorSpellings == {"error", "Error", "internal", "INTERNAL", "overloaded"}

MentionsErrorPhrase(content) ==
    \E i \in 1..Len(content) : content[i] \in ErrorSpellings

\* The request got as far as the inference call.
PromptBuilt == rtPc \in {"call", "await", "scan", "recover"} \/ rtOutbound > 0

\* Prose that holds no brace and no error phrase.
PlainProse == SeqsUpTo({"txt"}, MaxProse)

\* The payloads that are well-formed objects.
CleanPayloads ==
    {payload \in Payloads : JsonParse(payload).ok /\ JsonParse(payload).kind = "object"}

\* The batches dispatched so far, and the one dispatched last.
Batches == {k \in 1..Len(calls) : calls[k].terms # <<>>}

LatestBatch == defRequests[Len(defRequests)].call

\* The indexes of the terms that occur once in the term list of batch k.
SingleLookups(k) ==
    {i \in 1..Len(calls[k].terms) :
        \A j \in 1..Len(calls[k].terms) : calls[k].terms[j] = calls[k].terms[i] => j = i}

(***************************************************************************)
(* Claims on the transform handler and on the hooks                        *)
(***************************************************************************)
\* C1: when a second definition batch was dispatched before the first one
\* resolved, then once the batch dispatched last has completed the cache
\* holds that batch's results, whenever the earlier batch completes.
C1_GenerationGuard ==
    (defRequests # <<>> /\ calls[LatestBatch].pc = "done")
        => termDefinitions =
               DefinitionsMap(calls[LatestBatch].terms, calls[LatestBatch].outcomes)

\* C2: a 200 response carries no highlights when highlightKeyTerms was false
\* and no comments when comments was false, whatever the reply held.
C2_DisabledOptionsForcedEmpty ==
    (rtPc = "done" /\ rtResponse.status = 200)
        => /\ ~rtOptions["highlightKeyTerms"] => rtResponse.result.highlights.v = <<>>
           /\ ~rtOptions["comments"] => rtResponse.result.comments.v = <<>>

\* C3: the cache a completed batch wrote has an entry for every term of the
\* batch; a term whose lookup errored (rejected fetch or error response) is
\* mapped to "Failed to load definition", a term whose lookup returned a
\* definition keeps it.
C3_BatchFallback ==
    \A k \in Batches :
        (calls[k].pc = "done" /\ \A j \in Batches \ {k} : calls[j].pc # "done")
            => /\ DOMAIN termDefinitions = TermsOf(calls[k].terms)
               /\ \A i \in SingleLookups(k) :
                    /\ calls[k].outcomes[i] \in {"errorResponse", "failed"}
                         => termDefinitions[calls[k].terms[i]] = FailedToLoadDefinition
                    /\ calls[k].outcomes[i] = "ok"
                         => termDefinitions[calls[k].terms[i]] =
                                <<"definition of", calls[k].terms[i]>>

\* C8: the instruction block holds exactly three fragments, one per option in
\* the order autoFormat, highlightKeyTerms, comments: the positive fragment
\* when the option of the request is true, the negative one when it is false.
C8_ThreeFragments ==
    PromptBuilt
        => /\ Len(rtInstructions) = 3
           /\ rtInstructions[1] = (IF rtBody.options["autoFormat"] = "true"
                                   THEN AutoFormatFragment ELSE NoAutoFormatFragment)
           /\ rtInstructions[2] = (IF rtBody.options["highlightKeyTerms"] = "true"
                                   THEN HighlightFragment ELSE NoHighlightFragment)
           /\ rtInstructions[3] = (IF rtBody.options["comments"] = "true"
                                   THEN CommentsFragment ELSE NoCommentsFragment)

\* C8 witness: a request with highlightKeyTerms false and the other two true
\* has its prompt built, the negative fragment in second place.
C8_Witness ==
    /\ rtPc = "call"
    /\ rtBody.options["autoFormat"] = "true"
    /\ rtBody.options["highlightKeyTerms"] = "false"
    /\ rtBody.options["comments"] = "true"
    /\ rtInstructions = <<AutoFormatFragment, NoHighlightFragment, CommentsFragment>>

\* C9: a reply that holds one of the error phrases, in any case, ends in the
\* 503 in-band error response, never in 200, and no recovery was attempted.
C9_InBandErrorScan ==
    (rtPc \in {"recover", "done"} /\ MentionsErrorPhrase(rtContent))
        => /\ rtPc = "done"
           /\ rtResponse.status = 503
           /\ rtResponse.error = ErrInBand
           /\ rtJsonContent = <<>>

\* C9 witness: a well-formed payload whose notes hold INTERNAL is answered 503.
C9_Witness ==
    /\ rtPc = "done"
    /\ rtContent = <<"{", "fn:\"", "INTERNAL", "\"", "hl:none", "cm:none", "}">>
    /\ rtResponse.status = 503

\* C10: a reply made of a well-formed payload P, as it stands, in a fenced
\* block with or without the json tag, with or without prose before and
\* after, is answered 200 with the result of P; on P as it stands the two
\* stripping steps change nothing.
C10_RecoveryEquivalence ==
    (rtPc = "done" /\ ~MentionsErrorPhrase(rtContent))
        => \A pre \in PlainProse, post \in PlainProse, w \in Wrappings,
              payload \in CleanPayloads :
                rtContent = pre \o w[1] \o payload \o w[2] \o post
                    => /\ rtResponse.status = 200
                       /\ rtResponse.result = TransformResultOf(JsonParse(payload).obj)
                       /\ (pre = <<>> /\ post = <<>> /\ w[1] = <<>>)
                              => rtJsonContent = rtContent


\* The first n elements of a sequence (all of it when it is shorter).
FirstChars(content, n) ==
    [i \in 1..(IF Len(content) < n THEN Len(content) ELSE n) |-> content[i]]

\* Recovery was attempted on the reply and gave no object to read.
Unparseable ==
    /\ rtPc = "done"
    /\ rtContent # <<>>
    /\ ~MentionsErrorPhrase(rtContent)
    /\ \/ ~JsonParse(SliceBraces(StripFence(rtContent))).ok
       \/ JsonParse(SliceBraces(StripFence(rtContent))).kind = "null"

\* C11: a reply that cannot be parsed after stripping and slicing is answered
\* with the parse failure (500), its details being the first 200 characters
\* of the raw reply, the whole reply when it is shorter, and no result.
C11_ParseFailureDetails ==
    Unparseable
        => /\ rtResponse.status = 500
           /\ rtResponse.error = ErrParse
           /\ rtResponse.details = FirstChars(rtContent, 200)
           /\ rtResponse.result = EmptyResult

\* C11 witness: a reply of 201 characters is cut to its first 200.
C11_Witness ==
    /\ Unparseable
    /\ Len(rtContent) = 201
    /\ Len(rtResponse.details) = 200


\* C12: a request handled without the credential, by the transform handler or
\* by the definition handler, is answered 401 straight from the start and no
\* call of the inference service was made, whatever its body.
C12_NoCredentialNoCall ==
    /\ (rtPc # "off" /\ ~rtEnvToken)
          => /\ rtOutbound = 0
             /\ rtPc \in {"start", "done"}
             /\ rtPc = "done" => rtResponse.status = 401
    /\ (dfPc # "off" /\ ~dfEnvToken)
          => /\ dfOutbound = 0
             /\ dfPc \in {"start", "done"}
             /\ dfPc = "done" => dfResponse.status = 401

\* C12 witness: a well-formed definition request is answered 401 without a
\* call when the credential is absent.
C12_Witness ==
    /\ dfPc = "done"
    /\ ~dfEnvToken
    /\ dfBody.json /\ dfBody.term = "text"
    /\ dfResponse.status = 401
    /\ dfOutbound = 0


\* The request body is JSON with an empty or absent text, or with options
\* that do not give a boolean to each of the three flags.
InvalidTransformBody ==
    /\ rtBody.json
    /\ \/ rtBody.notes # "text"
       \/ ~rtBody.hasOptions
       \/ \E o \in OptionNames : rtBody.options[o] = "missing"

FieldPath(o) ==
    CASE o = "autoFormat" -> "options.autoFormat"
      [] o = "highlightKeyTerms" -> "options.highlightKeyTerms"
      [] o = "comments" -> "options.comments"

Named(details, field) == \E i \in 1..Len(details) : details[i] = field

\* C13: with the credential present, a request with an invalid body makes no
\* call of the inference service and, once past validation, is answered 400
\* with details that name every offending field.
C13_InvalidRequest ==
    (rtPc # "off" /\ rtEnvToken /\ InvalidTransformBody)
        => /\ rtOutbound = 0
           /\ rtPc \in {"start", "body", "done"}
           /\ rtPc = "done"
                => /\ rtResponse.status = 400
                   /\ rtResponse.error = ErrInvalidRequest
                   /\ rtBody.notes # "text" => Named(rtResponse.details, "notes")
                   /\ ~rtBody.hasOptions => Named(rtResponse.details, "options")
                   /\ \A o \in OptionNames :
                        (rtBody.hasOptions /\ rtBody.options[o] = "missing")
                            => Named(rtResponse.details, FieldPath(o))

\* C13 witness: a request with text and two of the three flags is answered
\* 400 naming the missing flag.
C13_Witness ==
    /\ rtPc = "done"
    /\ rtEnvToken
    /\ rtBody.json /\ rtBody.notes = "text" /\ rtBody.hasOptions
    /\ rtBody.options["autoFormat"] = "true"
    /\ rtBody.options["highlightKeyTerms"] = "false"
    /\ rtBody.options["comments"] = "missing"
    /\ rtResponse.status = 400
    /\ rtResponse.details = <<"options.comments">>


\* The signals of an upstream message, word by word.
SignalsAuth(msg) == \E i \in 1..Len(msg) : msg[i] \in {"401", "Unauthorized"}

SignalsRate(msg) == \E i \in 1..Len(msg) : msg[i] \in {"429", "rate"}

SignalsOverload(msg) == \E i \in 1..Len(msg) : msg[i] = "overloaded"

\* C14: an Error thrown by the inference call is answered by its signal: 401
\* or Unauthorized gives 401, 429 or rate gives 429, overloaded always gives
\* 503, and a message with none of them gives 500 carrying the message.
C14_ErrorMapping ==
    (rtPc = "done" /\ rtApiError.thrown /\ rtApiError.isError)
        => LET msg == rtApiError.msg
           IN  /\ SignalsOverload(msg)
                    => rtResponse.status = 503 /\ rtResponse.error = ErrApiOverloaded
               /\ (SignalsAuth(msg) /\ ~SignalsOverload(msg))
                    => rtResponse.status = 401 /\ rtResponse.error = ErrApiAuth
               /\ (SignalsRate(msg) /\ ~SignalsAuth(msg) /\ ~SignalsOverload(msg))
                    => rtResponse.status = 429 /\ rtResponse.error = ErrApiRate
               /\ (~SignalsAuth(msg) /\ ~SignalsRate(msg) /\ ~SignalsOverload(msg))
                    => /\ rtResponse.status = 500
                       /\ rtResponse.error = ErrApiOther
                       /\ rtResponse.arg = msg


\* The cache is the complete map of the finished batch k: one entry for every
\* term of the batch, each the converted outcome of a lookup of that term.
CompleteMapOf(cache, k) ==
    /\ calls[k].pc = "done"
    /\ DOMAIN cache = TermsOf(calls[k].terms)
    /\ \A t \in DOMAIN cache :
         \E i \in 1..Len(calls[k].terms) :
            calls[k].terms[i] = t /\ cache[t] = DefinitionFor(t, calls[k].outcomes[i])

\* Batch k finishes in this step.
Completes(k) == calls[k].pc = "loading" /\ calls'[k].pc = "done"

\* C15: the cache is always the empty map it starts as or the complete map of
\* a finished batch, never a part of the map of a batch still loading, and
\* only the step that finishes a batch changes it.
C15_AtomicCacheWrite ==
    /\ [](\/ DOMAIN termDefinitions = {}
          \/ \E k \in Batches : CompleteMapOf(termDefinitions, k))
    /\ [][termDefinitions' # termDefinitions
            => \E k \in Batches : Completes(k) /\ CompleteMapOf(termDefinitions, k)']_vars

\* C15 witness: the batch over A and B has one lookup settled and one
\* pending while the cache still is the map of the earlier batch over A.
C15_Witness ==
    \E k \in Batches :
        /\ calls[k].pc = "loading"
        /\ calls[k].terms = <<"A", "B">>
        /\ calls[k].outcomes[1] = "ok"
        /\ calls[k].outcomes[2] = "pending"
        /\ DOMAIN termDefinitions = {"A"}
        /\ termDefinitions["A"] = FailedToLoadDefinition


\* C16: the step that starts a transform, and the step that selects another
\* note, leave no definition of an earlier transform in the cache; and the
\* map a batch stores holds the terms of that batch only.
C16_CacheLifetime ==
    /\ [][(Len(calls') > Len(calls) \/ selectedNoteID' # selectedNoteID)
            => DOMAIN termDefinitions' = {}]_vars
    /\ [][\A k \in Batches :
            Completes(k) => DOMAIN termDefinitions' = TermsOf(calls[k].terms)]_vars


\* The terms of the definition requests that call k has issued, in order.
RECURSIVE RequestedTerms(_, _)
RequestedTerms(k, n) ==
    IF n = 0 THEN <<>>
    ELSE IF defRequests[n].call = k
         THEN Append(RequestedTerms(k, n - 1), defRequests[n].term)
         ELSE RequestedTerms(k, n - 1)

RequestsFor(k, term) ==
    Cardinality({n \in 1..Len(defRequests) :
                    defRequests[n].call = k /\ defRequests[n].term = term})

\* C17: a call whose transform has not succeeded has issued no definition
\* request; a call whose transform succeeded has issued requests exactly when
\* its highlightKeyTerms was on and its result holds highlights, and then one
\* request for each distinct highlighted term and none for any other term,
\* all of them present while every lookup is still pending.
C17_BatchDispatch ==
    \A k \in 1..Len(calls) :
        LET requested == RequestedTerms(k, Len(defRequests))
        IN  IF calls[k].result = Null
            THEN requested = <<>>
            ELSE LET highlights == calls[k].result[1].highlights
                 IN  /\ requested # <<>>
                           <=> (calls[k].options["highlightKeyTerms"] /\ highlights # <<>>)
                     /\ requested # <<>> =>
                           /\ TermsOf(requested) = TermsOf(highlights)
                           /\ \A t \in TermsOf(highlights) : RequestsFor(k, t) = 1


\* C18: while a lookup of a batch is unsettled isLoadingDefinitions is true;
\* isLoadingDefinitions turns false only in the step in which every lookup of
\* a batch has settled; a batch finishes only with all its lookups settled,
\* and a settled lookup keeps its outcome whatever its siblings do.
C18_FanIn ==
    /\ [](\A k \in Batches : calls[k].pc = "loading" => isLoadingDefinitions)
    /\ [][(isLoadingDefinitions /\ ~isLoadingDefinitions')
            => \E k \in Batches :
                  /\ Completes(k)
                  /\ \A i \in 1..Len(calls[k].terms) : calls'[k].outcomes[i] # "pending"]_vars
    /\ [][\A k \in Batches : \A i \in 1..Len(calls[k].terms) :
            calls[k].outcomes[i] # "pending"
                => calls'[k].outcomes[i] = calls[k].outcomes[i]]_vars


\* C19: while the transform request of a call is unsettled, transformResult
\* and transformError are both null.
C19_TransformingClearsState ==
    \A k \in 1..Len(calls) :
        calls[k].pc = "fetching" => (transformResult = Null /\ transformError = Null)


\* C20: a step that changes the selected term issues no definition request
\* and leaves the cache, the loading flag and the transform state as they
\* were; and with a term selected the popup shows the cache entry of the term
\* when the cache has one, and the loading or the absent indicator when it
\* has none.
C20_TermClickIsCacheLookup ==
    /\ [][selectedTerm' # selectedTerm
            => UNCHANGED <<defRequests, calls, termDefinitions, isLoadingDefinitions,
                           isTransforming, transformResult, transformError,
                           transformOptions>>]_vars
    /\ [](selectedTerm # Null =>
            IF selectedTerm[1] \in DOMAIN termDefinitions
            THEN TermDefinitionPopup = <<termDefinitions[selectedTerm[1]]>>
            ELSE TermDefinitionPopup \in {<<LoadingIndicator>>, <<AbsentIndicator>>})


\* C21: when the definition handler has received a reply, a reply that is
\* empty, or empty once trimmed, is answered with the no-definition failure,
\* and a 200 response carries the requested term and a non-empty definition
\* equal to the trimmed reply.
C21_DefinitionUsableText ==
    (dfPc = "done" /\ dfOutbound = 1 /\ dfResponse.status \in {200, 500}
        /\ dfResponse.error \in {"", ErrNoDefinition}) =>
        /\ Trim(dfDefinition) = <<>> =>
              (dfResponse.status = 500 /\ dfResponse.error = ErrNoDefinition)
        /\ dfResponse.status = 200 =>
              /\ dfResponse.term = dfBody.term
              /\ dfResponse.definition # <<>>
              /\ dfResponse.definition = Trim(dfDefinition)


\* What recovery parsed out of the reply.
ParsedReply == JsonParse(SliceBraces(StripFence(rtContent)))

\* C22: when recovery has parsed an object out of the reply, the response is
\* 200 and its formatted text is the parsed value when that is a string and
\* the empty string otherwise, its highlights the parsed value when that is
\* an array and the empty list otherwise, and its comments likewise.
C22_Coercion ==
    (rtPc = "done" /\ rtContent # <<>> /\ ~MentionsErrorPhrase(rtContent)
        /\ ParsedReply.ok /\ ParsedReply.kind = "object") =>
        /\ rtResponse.status = 200
        /\ rtResponse.result.formattedNotes =
              (IF ParsedReply.obj.formattedNotes.kind = "string"
               THEN ParsedReply.obj.formattedNotes ELSE StringValue(<<>>))
        /\ rtResponse.result.highlights =
              (IF ParsedReply.obj.highlights.kind = "array"
               THEN ParsedReply.obj.highlights ELSE ArrayValue(<<>>))
        /\ rtResponse.result.comments =
              (IF ParsedReply.obj.comments.kind = "array"
               THEN ParsedReply.obj.comments ELSE ArrayValue(<<>>))


Succeeded == transformResult # Null /\ transformError = Null

Failed == transformError # Null /\ transformResult = Null

\* Every call started so far has run to its end.
AllCyclesOver == calls # <<>> /\ \A k \in 1..Len(calls) : calls[k].pc = "done"

\* C23: when the fetches settle, every call that was started runs to its end,
\* and once no call is left running isTransforming is false and the hook is
\* in Succeeded (result, no error) or in Failed (error, no result).
C23_CycleTerminates ==
    /\ \A n \in 1..MaxTransforms :
          (Len(calls) >= n) ~> (Len(calls) >= n /\ calls[n].pc = "done")
    /\ [](AllCyclesOver => (~isTransforming /\ (Succeeded \/ Failed)))


\* C28: transformResult and transformError are never both set, whether or
\* not a transform is running.
C28_ResultXorError == ~(transformResult # Null /\ transformError # Null)

\* C29: while a dispatched batch has a lookup that has not settled,
\* isLoadingDefinitions is true and a popup that is open shows the loading
\* indicator.
C29_LoadingWhileInFlight ==
    (\E k \in Batches : calls[k].pc = "loading") =>
        /\ isLoadingDefinitions
        /\ selectedTerm # Null => TermDefinitionPopup = <<LoadingIndicator>>


Statuses == {200, 400, 401, 429, 500, 503}

\* C30: a request is handled stage by stage to its end without getting stuck,
\* no response exists before the end and the response given is never changed;
\* its status is one of the six, and it is 200 only with the credential
\* present, a valid body, one call made that threw nothing and returned
\* content, no error phrase in the content, and a parse of what recovery
\* kept; a body that is no valid request never leads to a call.
C30_TotalAndGated ==
    /\ [](rtPc # "done" => (ENABLED RouteNext /\ rtResponse = NoResponse))
    /\ [][rtPc = "done" => rtResponse' = rtResponse]_vars
    /\ [](rtPc = "done" =>
            /\ rtResponse.status \in Statuses
            /\ rtResponse.status = 200 =>
                  /\ rtEnvToken
                  /\ rtBody.json /\ ~InvalidTransformBody
                  /\ rtOutbound = 1
                  /\ ~rtApiError.thrown
                  /\ rtContent # <<>>
                  /\ ~MentionsErrorPhrase(rtContent)
                  /\ ParsedReply.ok)
    /\ []((~rtBody.json \/ InvalidTransformBody) => rtOutbound = 0)

\* C30 witness: a valid request whose reply is a fenced object between prose
\* is answered 200 after one call.
C30_Witness ==
    /\ rtPc = "done"
    /\ rtResponse.status = 200
    /\ rtOutbound = 1
    /\ rtContent[1] = "txt"
    /\ \E i \in 1..Len(rtContent) : rtContent[i] = Fence
    /\ rtResponse.result.highlights = ArrayValue(<<"t1", "t2">>)


\* C27: the string highlightKeyTerms returns holds no marker pair inside
\* another marker pair, for every text and every term list.
C27_NoNestedMarkers == hlPc = "returned" => MarkDepth(hlResult) <= 1


(***************************************************************************)
(* Claims on the editor and on the notes store                             *)
(***************************************************************************)
\* The record the store holds for the selected note, if it holds one.
StoredSelected == {note \in dbNotes : <<note.id>> = selectedNoteID}

\* A note is selected and stored, and neither a load nor a save is pending.
NothingPending ==
    /\ selectedNoteID # <<>>
    /\ StoredSelected # {}
    /\ noteLoads = {}
    /\ timers = {}

\* C24: at most one save is pending at any time; and once a note is selected
\* and neither a load nor a save is pending, so that no timer is left to fire,
\* the stored title and content of the note are those of the editor.
C24_AutoSave ==
    /\ [](Cardinality(timers) <= 1)
    /\ [](NothingPending =>
            \A note \in StoredSelected :
                note.title = editorTitle /\ note.content = editorContent)

\* A note with folderID f, in the store or in the list.
NotesIn(f) == {note.id : note \in {n \in dbNotes : n.folderID = f}}
                  \cup {n.id : n \in {m \in notes : m.folderID = f}}

\* C25: no note is stored or listed whose folder is not; a folder whose
\* handleDeleteFolder has completed is neither stored nor listed, and neither
\* is any note of it; and a step removes a note from the store only by
\* deleting its folder.
C25_DeleteFolderCascade ==
    /\ [](/\ \A note \in dbNotes : note.folderID \in dbFolders
          /\ \A n \in notes : n.folderID \in folders)
    /\ [](\A k \in 1..Len(storeOps) :
            (storeOps[k].kind = "delete" /\ storeOps[k].pc = "done")
                => /\ storeOps[k].folder \notin (dbFolders \cup folders)
                   /\ NotesIn(storeOps[k].folder) = {})
    /\ [][\A note \in dbNotes :
            (\A kept \in dbNotes' : kept.id # note.id)
                => note.folderID \in (dbFolders \ dbFolders')]_vars

\* The notes a title or a content may stem from.
KnownNotes == NoteIDs \cup {NewNoteIDs[k] : k \in 1..Len(NewNoteIDs)}

\* The text was loaded from a note other than this one.
FromOtherNote(text, id) == text # <<>> /\ text[1] \in KnownNotes \ {id}

\* C26: no updateNoteContent(id, title, content) call writes a title or a
\* content that was loaded from another note than id.
C26_SaveStaysInNote ==
    lastSave # <<>> =>
        /\ ~FromOtherNote(lastSave[1].title, lastSave[1].note)
        /\ ~FromOtherNote(lastSave[1].content, lastSave[1].note)

=============================================================================
